---- MODULE Spec2Model ----
(***************************************************************************)
(* Model of the pgsd-build installer pipeline                              *)
(* (src/installer/internal/install/install.go).                            *)
(*                                                                         *)
(* Errors are modelled as sequences of the text parts that fmt.Errorf      *)
(* concatenates: <<"zpool create failed", "exit status 1", output>>.       *)
(* Wrapping with %w puts the wrapped error's parts between the wrapper's   *)
(* prefix and its trailing hint.  The empty sequence is the nil error.     *)
(***************************************************************************)
EXTENDS Integers, Sequences, FiniteSets, TLC

VARIABLES
    entry,    \* function of the package that was called
    cfg,      \* install.Config: ImagePath, TargetDisk, ZpoolName
    fs,       \* what os.Stat answers for each path
    pc,       \* position in the code
    idx,      \* loop index of partitionDisk over its commands
    cmds,     \* external programs run so far: [name, ok]
    logs,     \* strings handed to cfg.LogFunc so far
    lookPath, \* the tools exec.LookPath finds (every tool until it is asked)
    missing,  \* checkRequirements: the tools exec.LookPath did not find
    euid,     \* value os.Geteuid returned (-1: not called yet)
    xz,       \* the xzcat process: [st, err, stderr]
    zr,       \* the zfs receive process: [st, err, stderr]
    pipeErr,  \* the error xzcat.StdoutPipe() returned ("": none)
    rets,     \* the error each finished stage function returned
    result,   \* the error the entry function returned (<<>>: nil)
    bootFiles,   \* the boot-blob paths os.Stat finds
    blobLen,     \* length in bytes of every boot blob on disk
    iso,         \* the target ISO file: [size, data]
    isoSize0,    \* size of the target ISO file before the call
    isobootPath, \* addMBRBootCode: the boot blob chosen ("": none)
    isoboot,     \* addMBRBootCode: the bytes os.ReadFile returned
    opened,      \* addMBRBootCode: os.OpenFile(isoPath, O_RDWR) succeeded
    isoSectors,  \* addMBRBootCode: (isoSize + 511) / 512
    writes,      \* addMBRBootCode: the iso.WriteAt calls made: [off, ok]
    disk,         \* content of base.txz and kernel.txz in destDir ("": no file)
    mirror,       \* what the mirror serves: [base, kernel, manifest]
    baseExists,   \* FetchArchives: base.txz is cached and passed verifyArchive
    kernelExists, \* FetchArchives: kernel.txz is cached and passed verifyArchive
    checksums,    \* downloadAndVerifyChecksums: file name -> hash, from MANIFEST
    verifyErr,    \* the error downloadAndVerifyChecksums returned
    fetched,      \* the paths FetchArchives returned: <<basePath, kernelPath>>
    model,        \* the installer TUI's tea.Model
    quit,         \* an Update of the TUI has returned tea.Quit
    lastMsg,      \* type of the message the TUI's Update handled last
    installs,     \* how many times the TUI has started the installation command
    inFlight,     \* installation commands started and not yet returned
    batch,        \* the messages of the commands the installation batched
    pending,      \* indices of batch whose message is not yet delivered
    overtakes,    \* pairs of messages delivered against their order so far
    toolFiles,    \* the known paths of ISO tools that os.Stat finds
    pathTools,    \* the ISO tools exec.LookPath finds
    cdboot,       \* <isoRoot>/boot/cdboot is a file
    hasCdboot,    \* assembleISO: its local hasCdboot
    isoTool,      \* assembleISO: what detectISOTool returned: [tool, path]
    toolExit,     \* how the ISO tool ended: "none", "ok", "failed"
    outputs,      \* the files in the ISO directory: "iso", "tar.gz"
    isoLog        \* warnings and infos of the ISO builder's logger

\* the state of the installer
installVars == <<cfg, fs, idx, cmds, logs, lookPath, missing, euid, xz, zr, pipeErr, rets>>

\* the state of the hybrid-boot writer
mbrVars == <<bootFiles, blobLen, iso, isoSize0, isobootPath, isoboot, opened, isoSectors, writes>>

\* the state of the archive fetcher
fetchVars == <<disk, mirror, baseExists, kernelExists, checksums, verifyErr, fetched>>

\* the state of the installer TUI
tuiVars == <<model, quit, lastMsg, installs, inFlight, batch, pending, overtakes>>

\* the state of the ISO builder
buildVars == <<toolFiles, pathTools, cdboot, hasCdboot, isoTool, toolExit, outputs, isoLog>>

\* what the installer, the hybrid-boot writer, the fetcher, the TUI and the
\* ISO builder each leave alone
outsideInstall == <<mbrVars, fetchVars, tuiVars, buildVars>>

outsideMBR == <<installVars, fetchVars, tuiVars, buildVars>>

outsideFetch == <<installVars, mbrVars, tuiVars, buildVars>>

outsideBuild == <<installVars, fetchVars, tuiVars>>

outsideTUI == <<installVars, mbrVars, fetchVars, buildVars>>

vars == <<entry, pc, result, installVars, mbrVars, fetchVars, tuiVars, buildVars>>

-----------------------------------------------------------------------------
(* Bounds of the model *)

\* bytes of the ISO file that are kept: offsets 0..Window-1
Window == 520

\* length of the boot blob that is longer than the boot-code region
LongBlobLen == 440

\* most images, and most disks, the TUI finds
MaxItems == 2

\* most pairs of batched messages that are delivered against their order in
\* the batch
MaxOvertakes == 1

\* the last stage that Install is made to fail in under the TUI
MaxFailStage == 2

\* length of the over-long pool name tried (one more than the limit)
LongNameLen == 64

\* number of distinct diagnostic texts an external program may print
MaxOutputs == 1

-----------------------------------------------------------------------------
(* Values *)

Nil == <<>>

Rep(c, n) == [k \in 1..n |-> c]

\* diagnostic texts of the external programs ("" when a program prints nothing)
OutTexts == <<"gpart: diag 1", "gpart: diag 2", "gpart: diag 3">>

XzTexts == <<"xzcat: corrupt input", "xzcat: unexpected end", "xzcat: write error">>

ZfsTexts == <<"cannot receive: failed", "cannot receive: exists", "cannot receive: invalid">>

Outputs == {""} \cup {OutTexts[k] : k \in 1..MaxOutputs}

XzStderrs == {""} \cup {XzTexts[k] : k \in 1..MaxOutputs}

ZfsStderrs == {""} \cup {ZfsTexts[k] : k \in 1..MaxOutputs}

\* os.Stat answers: no error with a size, or an error
StatOK == [err |-> "", size |-> 1]

StatEmpty == [err |-> "", size |-> 0]

StatNotExist == [err |-> "ENOENT", size |-> 0]

StatDenied == [err |-> "EACCES", size |-> 0]

ImageDir == "/img/a"

\* filepath.Join(dir, file)
Join(dir, file) == <<dir, file>>

IsNotExist(st) == st.err = "ENOENT"

\* strings.ContainsAny that looks at the first character only
ContainsAnyFirstOnly(s, chars) == Len(s) > 0 /\ s[1] \in chars

\* strings.ContainsAny(s, chars)
ContainsAny(s, chars) == \E k \in 1..Len(s) : s[k] \in chars

\* error text part of err that equals t
Contains(err, t) == \E k \in 1..Len(err) : err[k] = t

IsPrefix(s, t) == Len(s) <= Len(t) /\ \A k \in 1..Len(s) : s[k] = t[k]

\* longest pool name validateConfig lets through
MaxPoolNameLen == 63

PoolNames ==
    { <<>>,
      <<"p", "g", "s", "d">>,
      <<"a", " ", "b">>,
      <<"a", "/", "b">>,
      <<"a", "\\">>,
      <<"a", "\t", "b">>,
      <<"a", "\n">>,
      <<"\r", "a">>,
      Rep("a", MaxPoolNameLen),
      Rep("a", LongNameLen),
      Rep("/", LongNameLen) }

Configs ==
    [ImagePath : {"", ImageDir}, TargetDisk : {"", "ada0"}, ZpoolName : PoolNames]

DefaultConfig ==
    [ImagePath |-> ImageDir, TargetDisk |-> "ada0", ZpoolName |-> <<"p", "g", "s", "d">>]

requiredFiles == <<"root.zfs.xz", "efi.img", "manifest.toml">>

Paths == {<<ImageDir>>} \cup {Join(ImageDir, requiredFiles[k]) : k \in 1..3}

\* File systems: a missing or unreadable directory has no reachable files.
FileSystems ==
    { f \in [Paths -> {StatOK, StatEmpty, StatNotExist, StatDenied}] :
        /\ f[<<ImageDir>>] # StatEmpty
        /\ f[<<ImageDir>>] # StatOK => \A p \in Paths : f[p] = f[<<ImageDir>>]
        /\ f[Join(ImageDir, "efi.img")] # StatEmpty
        /\ f[Join(ImageDir, "manifest.toml")] # StatEmpty }

Stat(path) == IF path \in Paths THEN fs[path] ELSE StatNotExist

-----------------------------------------------------------------------------
(* validateConfig *)

\* the required-files loop without its last entry, manifest.toml
validateFilesNoManifest(c) ==
    LET bad == {j \in 1..2 : Stat(Join(c.ImagePath, requiredFiles[j])).err # ""}
        first == CHOOSE j \in bad : \A m \in bad : j <= m
    IN  IF bad = {} THEN Nil
        ELSE IF IsNotExist(Stat(Join(c.ImagePath, requiredFiles[first])))
             THEN <<"required file missing", requiredFiles[first]>>
             ELSE <<"cannot access required file", requiredFiles[first],
                    Stat(Join(c.ImagePath, requiredFiles[first])).err>>

validateFiles(c) ==
    LET bad == {j \in 1..3 : Stat(Join(c.ImagePath, requiredFiles[j])).err # ""}
        first == CHOOSE j \in bad : \A m \in bad : j <= m
    IN  IF bad = {} THEN Nil
        ELSE IF IsNotExist(Stat(Join(c.ImagePath, requiredFiles[first])))
             THEN <<"required file missing", requiredFiles[first]>>
             ELSE <<"cannot access required file", requiredFiles[first],
                    Stat(Join(c.ImagePath, requiredFiles[first])).err>>

\* validateConfig without the TargetDisk check
validateConfigNoDisk(c) ==
    IF c.ImagePath = "" THEN <<"image path is required">>
    ELSE IF c.ZpoolName = <<>> THEN <<"zpool name is required">>
    ELSE IF Stat(<<c.ImagePath>>).err # ""
         THEN IF IsNotExist(Stat(<<c.ImagePath>>))
              THEN <<"image directory not found", c.ImagePath>>
              ELSE <<"cannot access image directory", Stat(<<c.ImagePath>>).err>>
    ELSE IF validateFiles(c) # Nil THEN validateFiles(c)
    ELSE IF Len(c.ZpoolName) > MaxPoolNameLen
         THEN <<"zpool name too long (max 63 characters)", c.ZpoolName>>
    ELSE IF ContainsAny(c.ZpoolName, {" ", "/", "\\"})
         THEN <<"zpool name contains invalid characters (no spaces or slashes)", c.ZpoolName>>
    ELSE Nil

\* validateConfig with the length test off by one (>= for >)
validateConfigOffByOne(c) ==
    IF c.ImagePath = "" THEN <<"image path is required">>
    ELSE IF c.TargetDisk = "" THEN <<"target disk is required">>
    ELSE IF c.ZpoolName = <<>> THEN <<"zpool name is required">>
    ELSE IF Stat(<<c.ImagePath>>).err # ""
         THEN IF IsNotExist(Stat(<<c.ImagePath>>))
              THEN <<"image directory not found", c.ImagePath>>
              ELSE <<"cannot access image directory", Stat(<<c.ImagePath>>).err>>
    ELSE IF validateFiles(c) # Nil THEN validateFiles(c)
    ELSE IF Len(c.ZpoolName) >= MaxPoolNameLen
         THEN <<"zpool name too long (max 63 characters)", c.ZpoolName>>
    ELSE IF ContainsAny(c.ZpoolName, {" ", "/", "\\"})
         THEN <<"zpool name contains invalid characters (no spaces or slashes)", c.ZpoolName>>
    ELSE Nil

validateConfig(c) ==
    IF c.ImagePath = "" THEN <<"image path is required">>
    ELSE IF c.TargetDisk = "" THEN <<"target disk is required">>
    ELSE IF c.ZpoolName = <<>> THEN <<"zpool name is required">>
    ELSE IF Stat(<<c.ImagePath>>).err # ""
         THEN IF IsNotExist(Stat(<<c.ImagePath>>))
              THEN <<"image directory not found", c.ImagePath>>
              ELSE <<"cannot access image directory", Stat(<<c.ImagePath>>).err>>
    ELSE IF validateFiles(c) # Nil THEN validateFiles(c)
    ELSE IF Len(c.ZpoolName) > MaxPoolNameLen
         THEN <<"zpool name too long (max 63 characters)", c.ZpoolName>>
    ELSE IF ContainsAny(c.ZpoolName, {" ", "/", "\\"})
         THEN <<"zpool name contains invalid characters (no spaces or slashes)", c.ZpoolName>>
    ELSE Nil

-----------------------------------------------------------------------------
(* checkRequirements *)

required == <<"gpart", "newfs_msdos", "zpool", "zfs", "xzcat", "dd">>

Tools == {required[k] : k \in 1..Len(required)}

\* the lookup loop leaving at the first tool it does not find
missingToolsFirst(found) ==
    IF SelectSeq(required, LAMBDA t : t \notin found) = <<>>
    THEN <<>>
    ELSE <<Head(SelectSeq(required, LAMBDA t : t \notin found))>>

\* the tools exec.LookPath fails on, in the order of `required`
missingTools(found) == SelectSeq(required, LAMBDA t : t \notin found)

checkRequirements(found, uid) ==
    IF Len(missingTools(found)) > 0
    THEN <<"required commands not found">> \o missingTools(found)
    ELSE IF uid # 0 THEN <<"installation must be run as root">>
    ELSE Nil

-----------------------------------------------------------------------------
(* Install: the stages, their progress messages and their error wrappers *)

\* Install with the EFI image copied before the stream transfer
StagesCopyFirst ==
    << "validateConfig", "checkRequirements", "partitionDisk",
       "createEFIFilesystem", "createZFSPool", "copyEFIPartition",
       "extractZFSStream", "installBootloader", "finalizeInstallation" >>

Stages ==
    << "validateConfig", "checkRequirements", "partitionDisk",
       "createEFIFilesystem", "createZFSPool", "extractZFSStream",
       "copyEFIPartition", "installBootloader", "finalizeInstallation" >>

StageLog ==
    [ validateConfig       |-> "Validating installation configuration...",
      checkRequirements    |-> "Checking system requirements...",
      partitionDisk        |-> "Partitioning disk...",
      createEFIFilesystem  |-> "Creating EFI system partition...",
      createZFSPool        |-> "Creating ZFS pool...",
      extractZFSStream     |-> "Extracting root filesystem (this may take several minutes)...",
      copyEFIPartition     |-> "Installing EFI partition...",
      installBootloader    |-> "Installing bootloader...",
      finalizeInstallation |-> "Finalizing installation..." ]

StageErr ==
    [ validateConfig       |-> "invalid installation configuration",
      checkRequirements    |-> "system requirements not met",
      partitionDisk        |-> "disk partitioning failed",
      createEFIFilesystem  |-> "EFI filesystem creation failed",
      createZFSPool        |-> "ZFS pool creation failed",
      extractZFSStream     |-> "root filesystem extraction failed",
      copyEFIPartition     |-> "EFI partition installation failed",
      installBootloader    |-> "bootloader installation failed",
      finalizeInstallation |-> "installation finalization failed" ]

StageHint ==
    [ validateConfig       |-> <<>>,
      checkRequirements    |-> <<>>,
      partitionDisk        |-> <<"Hint: Ensure the disk is not in use and you have root privileges">>,
      createEFIFilesystem  |-> <<"Hint: The partition may not be properly created">>,
      createZFSPool        |-> <<"Hint: Ensure ZFS kernel module is loaded (kldload zfs)">>,
      extractZFSStream     |-> <<"Hint: Ensure the ZFS stream file is not corrupted">>,
      copyEFIPartition     |-> <<>>,
      installBootloader    |-> <<"Hint: Ensure /boot/boot1.efifat exists on the system">>,
      finalizeInstallation |-> <<>> ]

StageIndex(stage) == CHOOSE k \in 1..Len(Stages) : Stages[k] = stage

\* Install that drops the stage's error from the message it returns
InstallErrorUnwrapped(stage, err) == <<StageErr[stage]>> \o StageHint[stage]

\* fmt.Errorf("<stage> failed: %w[\nHint: ...]", err) in Install
InstallError(stage, err) == <<StageErr[stage]>> \o err \o StageHint[stage]

\* Install calling the next stage without announcing it
ReturnSilent(stage, err) ==
    /\ rets' = Append(rets, [stage |-> stage, err |-> err])
    /\ logs' = logs
    /\ IF entry # "Install"
       THEN pc' = "done" /\ result' = err
       ELSE IF err # Nil
       THEN pc' = "done" /\ result' = InstallError(stage, err)
       ELSE IF StageIndex(stage) = Len(Stages)
       THEN pc' = "done" /\ result' = Nil
       ELSE pc' = Stages[StageIndex(stage) + 1] /\ result' = result

\* The stage function `stage` returns err to its caller.  Install either
\* returns the wrapped error or logs the next stage's message and calls it;
\* after the last stage it logs completion and returns nil.  Called directly,
\* the function's error is the result.
Return(stage, err) ==
    /\ rets' = Append(rets, [stage |-> stage, err |-> err])
    /\ IF entry # "Install"
       THEN /\ pc' = "done"
            /\ result' = err
            /\ logs' = logs
       ELSE IF err # Nil
       THEN /\ pc' = "done"
            /\ result' = InstallError(stage, err)
            /\ logs' = logs
       ELSE IF StageIndex(stage) = Len(Stages)
       THEN /\ pc' = "done"
            /\ result' = Nil
            /\ logs' = Append(logs, "Installation complete!")
       ELSE /\ pc' = Stages[StageIndex(stage) + 1]
            /\ result' = result
            /\ logs' = Append(logs, StageLog[Stages[StageIndex(stage) + 1]])

-----------------------------------------------------------------------------
(* External programs *)

\* exec.Cmd.CombinedOutput: the error ("" on exit 0) and the captured output
CmdResults == [err : {"", "exit status 1"}, out : Outputs]

Ran(name, err) == Append(cmds, [name |-> name, ok |-> (err = "")])

\* fmt.Errorf("<what> failed: %w\nOutput: %s", err, output)
CmdError(what, r) == <<what, r.err, r.out>>

NotStarted == [st |-> "unstarted", err |-> "", stderr |-> ""]

-----------------------------------------------------------------------------
(* 64-bit integers and files, for the hybrid-boot writer *)

\* An int64 is held as [hi, lo] and stands for hi * Base + lo, with lo < Base:
\* TLC computes with 32-bit integers, too narrow for a file size.
Base == 2^30

\* the int64 of a number below 2^31
Int64(n) == [hi |-> n \div Base, lo |-> n % Base]

\* x + n, for n below Base
Add(x, n) == [hi |-> x.hi + ((x.lo + n) \div Base), lo |-> (x.lo + n) % Base]

\* x / d, for d a power of two up to Base
Div(x, d) == [hi |-> x.hi \div d, lo |-> ((x.hi % d) * (Base \div d)) + (x.lo \div d)]

\* x > y
Greater(x, y) == x.hi > y.hi \/ (x.hi = y.hi /\ x.lo > y.lo)

\* 0xFFFFFFFF
MaxUint32 == [hi |-> 3, lo |-> Base - 1]

\* the conversions uint32(x) and byte(x)
uint32(x) == [hi |-> x.hi % 4, lo |-> x.lo]

byte(x) == x.lo % 256

\* content of the ISO file at offset i before the call
OrigByte(i) == 101 + (i % 100)

\* how many of the bytes of a file of this size are kept
Kept(size) == IF size.hi = 0 /\ size.lo < Window THEN size.lo ELSE Window

\* a file is its size and its first bytes: data[k] is the byte at offset k-1
ISOFile(size) == [size |-> size, data |-> [k \in 1..Kept(size) |-> OrigByte(k - 1)]]

\* os.File.WriteAt(b, off) below offset 2^31: the bytes are replaced in place,
\* the file grows when the write ends past its end, and a gap reads as zeros
WriteAt(f, b, off) ==
    IF Len(b) = 0 THEN f
    ELSE LET size == IF Greater(Int64(off + Len(b)), f.size)
                     THEN Int64(off + Len(b)) ELSE f.size
         IN  [size |-> size,
              data |-> [k \in 1..Kept(size) |->
                          IF k - 1 >= off /\ k - 1 < off + Len(b) THEN b[k - off]
                          ELSE IF k <= Len(f.data) THEN f.data[k]
                          ELSE 0]]

\* the boot blobs a build machine can hold, and the bytes of each
FreebsdRoot == "/usr/freebsd"

IsoRoot == "/work/iso"

BootBlobs == {"/usr/freebsd/boot/isoboot", "/work/iso/boot/isoboot", "/usr/freebsd/boot/cdboot"}

BlobSeed(path) ==
    IF path = "/usr/freebsd/boot/isoboot" THEN 0
    ELSE IF path = "/work/iso/boot/isoboot" THEN 30 ELSE 60

BlobByte(path, i) == 1 + ((i + BlobSeed(path)) % 100)

\* os.ReadFile(path)
ReadFile(path, n) == [k \in 1..n |-> BlobByte(path, k - 1)]

\* the sizes of the target and the lengths of the blob that are tried
Sizes ==
    {Int64(n) : n \in {0, 1, 431, 432, 500, 512, 513, 1024, 734003200}}
    \cup {[hi |-> 1536, lo |-> 0],
          [hi |-> 2047, lo |-> Base - 512],
          [hi |-> 2047, lo |-> Base - 511],
          [hi |-> 2048, lo |-> 2560]}

BlobLens == {0, 1, 431, 432, LongBlobLen}

filepathJoin(a, b) == a \o "/" \o b

\* the candidate list with the CD-only blob tried first
isobootPathsCdbootFirst(freebsdRoot, isoRoot) ==
    <<filepathJoin(freebsdRoot, "boot/cdboot"),
      filepathJoin(freebsdRoot, "boot/isoboot"),
      filepathJoin(isoRoot, "boot/isoboot")>>

\* lines 627-631
isobootPaths(freebsdRoot, isoRoot) ==
    <<filepathJoin(freebsdRoot, "boot/isoboot"),
      filepathJoin(isoRoot, "boot/isoboot"),
      filepathJoin(freebsdRoot, "boot/cdboot")>>

\* the search settling for the last candidate when it finds none
findIsobootLastResort(paths, present) ==
    LET hits == {k \in 1..Len(paths) : paths[k] \in present}
    IN  IF hits = {} THEN paths[Len(paths)]
        ELSE paths[CHOOSE k \in hits : \A m \in hits : k <= m]

\* lines 633-640: the first path os.Stat finds, "" when there is none
findIsoboot(paths, present) ==
    LET hits == {k \in 1..Len(paths) : paths[k] \in present}
    IN  IF hits = {} THEN ""
        ELSE paths[CHOOSE k \in hits : \A m \in hits : k <= m]

\* the boot code taken whole, however long the blob
bootCodeSizeUncapped(n) == n

\* lines 661-664
bootCodeSize(n) == IF n < 432 THEN n ELSE 432

\* the sector count rounded down
sectorCountFloor(isoSize) == Div(isoSize, 512)

\* line 678
sectorCount(isoSize) == Div(Add(isoSize, 511), 512)

\* the conversion to uint32 without the clamp
sectorsTruncated(n) == uint32(n)

\* lines 703-706
sectors(n) == IF Greater(n, MaxUint32) THEN MaxUint32 ELSE uint32(n)

\* the partition table with the sector count stored big-endian
partitionTableBigEndian(n) ==
    <<\H80, \H00, \H01, \H00, \Hcd, \HFE, \HFF, \HFF,
      \H00, \H00, \H00, \H00,
      byte(Div(sectors(n), 2^24)), byte(Div(sectors(n), 2^16)),
      byte(Div(sectors(n), 2^8)), byte(sectors(n))>> \o Rep(0, 48)

\* lines 682-710: the 64 bytes of the partition table
partitionTable(n) ==
    <<\H80, \H00, \H01, \H00, \Hcd, \HFE, \HFF, \HFF,
      \H00, \H00, \H00, \H00,
      byte(sectors(n)), byte(Div(sectors(n), 2^8)),
      byte(Div(sectors(n), 2^16)), byte(Div(sectors(n), 2^24))>> \o Rep(0, 48)

\* line 719
bootSig == <<\H55, \HAA>>

-----------------------------------------------------------------------------
(* Archives, mirrors and MANIFEST files, for the fetcher *)

\* what a file can hold: less than 1024 bytes, 1024 bytes or more that do not
\* start with the xz magic, or one of two xz archives
Contents == {"tiny", "notxz", "xzA", "xzB"}

\* hex.EncodeToString(sha256(content)): a different digest for each content
SHA256(c) ==
    IF c = "xzA" THEN "a3f1" ELSE IF c = "xzB" THEN "b772"
    ELSE IF c = "notxz" THEN "c90d" ELSE "d4e8"

\* lines 194-224
verifyArchive(c) ==
    IF c = "" THEN <<"ENOENT">>
    ELSE IF c = "tiny" THEN <<"file too small (possibly corrupt)">>
    ELSE IF c \notin {"xzA", "xzB"} THEN <<"not a valid xz archive">>
    ELSE Nil

\* A line of text is the sequence of its tokens.
IndexOf(line, t) ==
    IF \E k \in 1..Len(line) : line[k] = t
    THEN CHOOSE k \in 1..Len(line) : line[k] = t /\ \A j \in 1..(k - 1) : line[j] # t
    ELSE 0

IsSpace(t) == t \in {" ", "\t"}

\* strings.TrimSpace
TrimSpace(line) ==
    LET solid == {k \in 1..Len(line) : ~IsSpace(line[k])}
    IN  IF solid = {} THEN <<>>
        ELSE SubSeq(line, CHOOSE k \in solid : \A j \in solid : k <= j,
                          CHOOSE k \in solid : \A j \in solid : k >= j)

\* the text of a sequence of tokens
RECURSIVE Text(_)
Text(line) == IF line = <<>> THEN "" ELSE Head(line) \o Text(Tail(line))

\* lines 251-266: the file name and hash a MANIFEST line gives, <<>> if none
parseLine(line) ==
    LET seps == {k \in 1..Len(line) : line[k] = " = "}
        eq == IndexOf(line, " = ")
        filenamePart == TrimSpace(SubSeq(line, 1, eq - 1))
        start == IndexOf(filenamePart, "(")
        end == IndexOf(filenamePart, ")")
    IN  IF IndexOf(line, "SHA256") > 0 /\ Cardinality(seps) = 1 /\ start > 0 /\ end > start
        THEN <<Text(SubSeq(filenamePart, start + 1, end - 1)),
               Text(TrimSpace(SubSeq(line, eq + 1, Len(line))))>>
        ELSE <<>>

\* lines 248-268: the map the scanner loop builds, a later line overriding
parseManifest(lines) ==
    LET hits == {k \in 1..Len(lines) : parseLine(lines[k]) # <<>>}
        names == {parseLine(lines[k])[1] : k \in hits}
        last(f) == CHOOSE k \in hits : /\ parseLine(lines[k])[1] = f
                                       /\ \A j \in hits : parseLine(lines[j])[1] = f => j <= k
    IN  [f \in names |-> parseLine(lines[last(f)])[2]]

\* the lines a MANIFEST can hold for one archive: none, a line of the form
\* "SHA256 (name) = hash", or FreeBSD's own "name<TAB>hash<TAB>count"
LinesFor(name) ==
    {<<>>}
    \cup {<< <<"SHA256", " ", "(", name, ")", " = ", h>> >> : h \in {SHA256("xzA"), SHA256("xzB")}}
    \cup {<< <<name, "\t", SHA256("xzA"), "\t", "25">> >>}

\* GET <baseURL>/MANIFEST: no answer (0), not found (404), or the file (200)
Manifests ==
    {[status |-> 0, lines |-> <<>>], [status |-> 404, lines |-> <<>>]}
    \cup {[status |-> 200, lines |-> b \o k] : b \in LinesFor("base.txz"), k \in LinesFor("kernel.txz")}

\* GET of an archive: "" when the download fails, else the content served
Mirrors == [base : {"", "xzA", "xzB"}, kernel : {"", "xzA", "xzB"}, manifest : Manifests]

DestDir == "freebsd-dist"

-----------------------------------------------------------------------------
(* The state before a call *)

\* Install(cfg) on any configuration and image directory
InitInstall ==
    /\ entry = "Install"
    /\ cfg \in Configs
    /\ fs \in FileSystems
    /\ pc = "Install"

Fresh ==
    /\ idx = 1
    /\ cmds = <<>>
    /\ logs = <<>>
    /\ lookPath = Tools
    /\ missing = <<>>
    /\ euid = -1
    /\ xz = NotStarted
    /\ zr = NotStarted
    /\ pipeErr = ""
    /\ rets = <<>>
    /\ result = Nil

\* no hybrid-boot write under way
NoWrite ==
    /\ isobootPath = ""
    /\ isoboot = <<>>
    /\ opened = FALSE
    /\ isoSectors = Int64(0)
    /\ writes = <<>>

\* the installer never touches an ISO file
NoISO ==
    /\ bootFiles = {}
    /\ blobLen = 0
    /\ iso = ISOFile(Int64(0))
    /\ isoSize0 = Int64(0)
    /\ NoWrite

\* no fetch under way
NoFetchYet ==
    /\ baseExists = FALSE
    /\ kernelExists = FALSE
    /\ checksums = <<>>
    /\ verifyErr = Nil
    /\ fetched = <<"", "">>

\* the installer and the hybrid-boot writer fetch nothing
NoFetch ==
    /\ disk = [base |-> "", kernel |-> ""]
    /\ mirror = [base |-> "", kernel |-> "", manifest |-> [status |-> 0, lines |-> <<>>]]
    /\ NoFetchYet

\* pgsd-inst/main.go lines 55-59: initialModel()
initialModel ==
    [state |-> "Welcome", images |-> 0, disks |-> 0, selectedImg |-> 0,
     selectedDisk |-> 0, cursor |-> 0, err |-> "", installLog |-> <<>>]

\* the TUI as tea.NewProgram(initialModel()) starts it
NewProgram ==
    /\ model = initialModel
    /\ quit = FALSE
    /\ lastMsg = "none"
    /\ installs = 0
    /\ inFlight = 0
    /\ batch = <<>>
    /\ pending = {}
    /\ overtakes = 0

\* lines 483-487: the tools and the paths they are looked for at
ISOTools == <<"makefs", "xorriso", "genisoimage", "mkisofs">>

toolPaths ==
    [t \in {"makefs", "xorriso", "genisoimage", "mkisofs"} |->
        IF t = "makefs" THEN <<"/usr/sbin/makefs", "/sbin/makefs">>
        ELSE <<"/usr/bin/" \o t>>]

Range(seq) == {seq[k] : k \in 1..Len(seq)}

KnownPaths == UNION {Range(toolPaths[t]) : t \in DOMAIN toolPaths}

\* the first of the paths that exists, "" if none does
FirstExisting(paths, files) ==
    IF \E k \in 1..Len(paths) : paths[k] \in files
    THEN paths[CHOOSE k \in 1..Len(paths) :
                   paths[k] \in files /\ \A j \in 1..(k - 1) : paths[j] \notin files]
    ELSE ""

\* exec.LookPath(tool) when it finds the tool
LookPathOf(tool) == "/usr/local/bin/" \o tool

\* lines 479-507: what detectISOTool can return. The range over the map
\* toolPaths visits the tools in an order Go leaves unspecified, so the tool
\* returned is any tool one of whose paths exists; the search of PATH is in
\* the order of the list
detectISOTool(files, inPath) ==
    IF \E t \in DOMAIN toolPaths : FirstExisting(toolPaths[t], files) # ""
    THEN {[tool |-> t, path |-> FirstExisting(toolPaths[t], files)] :
             t \in {u \in DOMAIN toolPaths : FirstExisting(toolPaths[u], files) # ""}}
    ELSE IF \E k \in 1..Len(ISOTools) : ISOTools[k] \in inPath
    THEN LET k == CHOOSE k \in 1..Len(ISOTools) :
                      ISOTools[k] \in inPath /\ \A j \in 1..(k - 1) : ISOTools[j] \notin inPath
         IN  {[tool |-> ISOTools[k], path |-> LookPathOf(ISOTools[k])]}
    ELSE {[tool |-> "", path |-> ""]}

\* the hosts a build runs on: any set of the known paths, and any answers of
\* exec.LookPath where it is asked, which is where no known path exists
Hosts ==
    {h \in [files : SUBSET KnownPaths, inPath : SUBSET Range(ISOTools)] :
        h.files = {} \/ h.inPath = {}}

\* the steps of Build before assembleISO, and the error of each (lines 67-103)
BuildSteps ==
    <<"failed to build ISO filesystem", "failed to install packages",
      "failed to install boot infrastructure", "failed to apply overlays",
      "failed to copy system images", "failed to register Arcan target">>

\* the lengths of the boot blob, and the sizes of the image makefs writes,
\* that a build is tried with
BuildBlobLens == {1, LongBlobLen}

MakefsSizes == {Int64(1024), Int64(734003200)}

\* the ISO builder before assembleISO has done anything
NoAssembly ==
    /\ hasCdboot = FALSE
    /\ isoTool = [tool |-> "", path |-> ""]
    /\ toolExit = "none"
    /\ outputs = {}
    /\ isoLog = <<>>

\* no ISO build under way
NoBuild ==
    /\ toolFiles = {}
    /\ pathTools = {}
    /\ cdboot = FALSE
    /\ NoAssembly

Init == InitInstall /\ Fresh /\ NoISO /\ NoFetch /\ NewProgram /\ NoBuild

\* addMBRBootCode(isoPath, isoRoot) on any target file and set of boot blobs
InitMBR ==
    /\ entry = "addMBRBootCode"
    /\ pc = "addMBRBootCode"
    /\ cfg = DefaultConfig
    /\ fs = [p \in Paths |-> StatOK]
    /\ Fresh
    /\ bootFiles \in SUBSET BootBlobs
    /\ blobLen \in BlobLens
    /\ isoSize0 \in Sizes
    /\ iso = ISOFile(isoSize0)
    /\ NoWrite
    /\ NoFetch
    /\ NewProgram
    /\ NoBuild

\* Builder.Build(cfg) on any host, with an empty ISO directory
InitBuild ==
    /\ entry = "Build"
    /\ pc = "Build"
    /\ cfg = DefaultConfig
    /\ fs = [p \in Paths |-> StatOK]
    /\ Fresh
    /\ bootFiles \in SUBSET BootBlobs
    /\ blobLen \in BuildBlobLens
    /\ iso = ISOFile(Int64(0))
    /\ isoSize0 = Int64(0)
    /\ NoWrite
    /\ NoFetch
    /\ NewProgram
    /\ \E h \in Hosts : toolFiles = h.files /\ pathTools = h.inPath
    /\ cdboot \in BOOLEAN
    /\ NoAssembly

\* pgsd-inst started
InitTUI ==
    /\ entry = "pgsd-inst"
    /\ pc = "Run"
    /\ cfg = DefaultConfig
    /\ fs = [p \in Paths |-> StatOK]
    /\ Fresh
    /\ NoISO
    /\ NoFetch
    /\ NewProgram
    /\ NoBuild

\* FetchArchives() on any cache directory and mirror
InitFetch ==
    /\ entry = "FetchArchives"
    /\ pc = "FetchArchives"
    /\ cfg = DefaultConfig
    /\ fs = [p \in Paths |-> StatOK]
    /\ Fresh
    /\ NoISO
    /\ disk \in [base : Contents \cup {""}, kernel : Contents \cup {""}]
    /\ mirror \in Mirrors
    /\ NoFetchYet
    /\ NewProgram
    /\ NoBuild

\* extractZFSStream(rootZFS, poolName) called on its own
InitExtract ==
    /\ entry = "extractZFSStream"
    /\ cfg = DefaultConfig
    /\ fs \in {f \in FileSystems : f[Join(ImageDir, "efi.img")] = StatOK
                                   /\ f[Join(ImageDir, "manifest.toml")] = StatOK}
    /\ pc = "extractZFSStream"
    /\ Fresh
    /\ NoISO
    /\ NoFetch
    /\ NewProgram
    /\ NoBuild

-----------------------------------------------------------------------------
(* Install, lines 23-45: validation and requirements *)

Validate ==
    /\ pc = "Install"
    /\ rets' = Append(rets, [stage |-> "validateConfig", err |-> validateConfig(cfg)])
    /\ IF validateConfig(cfg) # Nil
       THEN /\ pc' = "done"
            /\ result' = InstallError("validateConfig", validateConfig(cfg))
            /\ logs' = <<StageLog["validateConfig"]>>
       ELSE /\ pc' = "checkRequirements"
            /\ result' = result
            /\ logs' = <<StageLog["validateConfig"], StageLog["checkRequirements"]>>
    /\ UNCHANGED <<entry, cfg, fs, lookPath, idx, cmds, missing, euid, xz, zr, pipeErr, outsideInstall>>

CheckRequirements ==
    /\ pc = "checkRequirements"
    /\ \E found \in SUBSET Tools, uid \in {0, 1001} :
          /\ lookPath' = found
          /\ missing' = missingTools(found)
          /\ euid' = IF Len(missingTools(found)) > 0 THEN euid ELSE uid
          /\ Return("checkRequirements", checkRequirements(found, uid))
    /\ UNCHANGED <<entry, cfg, fs, idx, cmds, xz, zr, pipeErr, outsideInstall>>

-----------------------------------------------------------------------------
(* partitionDisk *)

\* partitionDisk that resets the disk after laying it out
commandsDestroyLast == <<"gpart create", "gpart add efi", "gpart add freebsd-zfs", "gpart destroy">>

commands == <<"gpart destroy", "gpart create", "gpart add efi", "gpart add freebsd-zfs">>

\* partitionDisk that swallows the failure of every command
ignoreEveryFailure(cmd) == TRUE

\* args[1] != "destroy": the failure of gpart destroy alone is swallowed
ignoreFailure(cmd) == cmd = "gpart destroy"

PartitionStep ==
    /\ pc = "partitionDisk"
    /\ idx <= Len(commands)
    /\ \E r \in CmdResults :
          /\ cmds' = Ran(commands[idx], r.err)
          /\ IF r.err # "" /\ ~ignoreFailure(commands[idx])
             THEN /\ Return("partitionDisk", <<"command failed", commands[idx], r.err, r.out>>)
                  /\ idx' = idx
             ELSE IF idx = Len(commands)
             THEN /\ Return("partitionDisk", Nil)
                  /\ idx' = idx
             ELSE /\ idx' = idx + 1
                  /\ UNCHANGED <<pc, rets, result, logs>>
    /\ UNCHANGED <<entry, cfg, fs, lookPath, missing, euid, xz, zr, pipeErr, outsideInstall>>

-----------------------------------------------------------------------------
(* createEFIFilesystem, createZFSPool *)

CreateEFIFilesystem ==
    /\ pc = "createEFIFilesystem"
    /\ \E r \in CmdResults :
          /\ cmds' = Ran("newfs_msdos", r.err)
          /\ Return("createEFIFilesystem",
                    IF r.err # "" THEN CmdError("newfs_msdos failed", r) ELSE Nil)
    /\ UNCHANGED <<entry, cfg, fs, lookPath, idx, missing, euid, xz, zr, pipeErr, outsideInstall>>

CreateZFSPool ==
    /\ pc = "createZFSPool"
    /\ \E r \in CmdResults :
          /\ cmds' = Ran("zpool create", r.err)
          /\ Return("createZFSPool",
                    IF r.err # "" THEN CmdError("zpool create failed", r) ELSE Nil)
    /\ UNCHANGED <<entry, cfg, fs, lookPath, idx, missing, euid, xz, zr, pipeErr, outsideInstall>>

-----------------------------------------------------------------------------
(* extractZFSStream: xzcat rootZFS | zfs receive -F poolName/ROOT/default *)

\* readPipe returns "" whatever the pipe holds
readPipe(pipe) == ""

\* extractZFSStream without the os.Stat check
streamFileErrorUnchecked(st) == Nil

\* the error of the os.Stat(rootZFS) check
streamFileError(st) ==
    IF st.err # ""
    THEN IF IsNotExist(st)
         THEN <<"ZFS stream file not found", cfg.ImagePath, "root.zfs.xz">>
         ELSE <<"cannot access ZFS stream file", st.err>>
    ELSE Nil

\* os.Stat(rootZFS), then xzcat.StdoutPipe()
ExtractStat ==
    /\ pc = "extractZFSStream"
    /\ IF streamFileError(Stat(Join(cfg.ImagePath, "root.zfs.xz"))) # Nil
       THEN /\ Return("extractZFSStream",
                      streamFileError(Stat(Join(cfg.ImagePath, "root.zfs.xz"))))
            /\ pipeErr' = pipeErr
       ELSE \E e \in {"", "too many open files"} :
               /\ pipeErr' = e
               /\ IF e # ""
                  THEN Return("extractZFSStream",
                              <<"failed to create pipe between xzcat and zfs receive", e>>)
                  ELSE /\ pc' = "startZfs"
                       /\ UNCHANGED <<rets, result, logs>>
    /\ UNCHANGED <<entry, cfg, fs, lookPath, idx, cmds, missing, euid, xz, zr, outsideInstall>>

\* zfsRecv.Start()
StartZfs ==
    /\ pc = "startZfs"
    /\ \E e \in {"", "fork/exec: resource temporarily unavailable"} :
          /\ cmds' = Ran("zfs receive", e)
          /\ IF e # ""
             THEN /\ zr' = [zr EXCEPT !.st = "startfailed", !.err = e]
                  /\ Return("extractZFSStream", <<"failed to start zfs receive command", e>>)
             ELSE /\ zr' = [zr EXCEPT !.st = "running"]
                  /\ pc' = "startXzcat"
                  /\ UNCHANGED <<rets, result, logs>>
    /\ UNCHANGED <<entry, cfg, fs, lookPath, idx, missing, euid, xz, pipeErr, outsideInstall>>

\* xzcat.Start()
StartXzcat ==
    /\ pc = "startXzcat"
    /\ \E e \in {"", "fork/exec: resource temporarily unavailable"} :
          /\ cmds' = Ran("xzcat", e)
          /\ IF e # ""
             THEN /\ xz' = [xz EXCEPT !.st = "startfailed", !.err = e]
                  /\ Return("extractZFSStream", <<"failed to start xzcat command", e>>)
             ELSE /\ xz' = [xz EXCEPT !.st = "running"]
                  /\ pc' = "waitXzcat"
                  /\ UNCHANGED <<rets, result, logs>>
    /\ UNCHANGED <<entry, cfg, fs, lookPath, idx, missing, euid, zr, pipeErr, outsideInstall>>

\* The xzcat process ends: exit 0, exit 1, or killed by SIGPIPE once the
\* reader of its stdout is gone.
XzcatExit ==
    /\ xz.st = "running"
    /\ \E e \in {"", "exit status 1", "signal: broken pipe"}, t \in XzStderrs :
          /\ e = "signal: broken pipe" => (zr.st = "exited" /\ t = "")
          /\ xz' = [st |-> "exited", err |-> e, stderr |-> t]
    /\ UNCHANGED <<entry, cfg, fs, lookPath, pc, idx, cmds, logs, missing, euid, zr, pipeErr, rets, result, outsideInstall>>

\* The zfs receive process ends; it can end well only after end of input.
ZfsExit ==
    /\ zr.st = "running"
    /\ \E e \in {"", "exit status 1"}, t \in ZfsStderrs :
          /\ e = "" => xz.st \in {"exited", "waited"}
          /\ zr' = [st |-> "exited", err |-> e, stderr |-> t]
    /\ UNCHANGED <<entry, cfg, fs, lookPath, pc, idx, cmds, logs, missing, euid, xz, pipeErr, rets, result, outsideInstall>>

\* xzcat.Wait() with its error dropped
WaitXzcatUnchecked ==
    /\ pc = "waitXzcat"
    /\ xz.st = "exited"
    /\ xz' = [xz EXCEPT !.st = "waited"]
    /\ pc' = "waitZfs"
    /\ UNCHANGED <<entry, cfg, fs, lookPath, idx, cmds, logs, missing, euid, zr, pipeErr, rets, result, outsideInstall>>

\* xzcat.Wait()
WaitXzcat ==
    /\ pc = "waitXzcat"
    /\ xz.st = "exited"
    /\ xz' = [xz EXCEPT !.st = "waited"]
    /\ IF xz.err # ""
       THEN Return("extractZFSStream",
                   <<"xzcat decompression failed", xz.err, readPipe(xz.stderr)>>)
       ELSE /\ pc' = "waitZfs"
            /\ UNCHANGED <<rets, result, logs>>
    /\ UNCHANGED <<entry, cfg, fs, lookPath, idx, cmds, missing, euid, zr, pipeErr, outsideInstall>>

\* zfsRecv.Wait()
WaitZfs ==
    /\ pc = "waitZfs"
    /\ zr.st = "exited"
    /\ zr' = [zr EXCEPT !.st = "waited"]
    /\ Return("extractZFSStream",
              IF zr.err # ""
              THEN <<"zfs receive failed", zr.err, readPipe(zr.stderr)>>
              ELSE Nil)
    /\ UNCHANGED <<entry, cfg, fs, lookPath, idx, cmds, missing, euid, xz, pipeErr, outsideInstall>>

-----------------------------------------------------------------------------
(* copyEFIPartition, installBootloader, finalizeInstallation *)

CopyEFIPartition ==
    /\ pc = "copyEFIPartition"
    /\ LET st == Stat(Join(cfg.ImagePath, "efi.img")) IN
       IF st.err # ""
       THEN /\ Return("copyEFIPartition",
                      IF IsNotExist(st)
                      THEN <<"EFI image file not found", cfg.ImagePath, "efi.img">>
                      ELSE <<"cannot access EFI image file", st.err>>)
            /\ cmds' = cmds
       ELSE \E r \in CmdResults :
               /\ cmds' = Ran("dd", r.err)
               /\ Return("copyEFIPartition",
                         IF r.err # "" THEN CmdError("failed to copy EFI partition", r) ELSE Nil)
    /\ UNCHANGED <<entry, cfg, fs, lookPath, idx, missing, euid, xz, zr, pipeErr, outsideInstall>>

InstallBootloader ==
    /\ pc = "installBootloader"
    /\ \E r \in CmdResults :
          /\ cmds' = Ran("gpart bootcode", r.err)
          /\ Return("installBootloader",
                    IF r.err # "" THEN CmdError("gpart bootcode failed", r) ELSE Nil)
    /\ UNCHANGED <<entry, cfg, fs, lookPath, idx, missing, euid, xz, zr, pipeErr, outsideInstall>>

\* finalizeInstallation going on to the export whatever zpool set answers
FinalizeSetBootfsUnchecked ==
    /\ pc = "finalizeInstallation"
    /\ \E r \in CmdResults :
          /\ cmds' = Ran("zpool set bootfs", r.err)
          /\ pc' = "zpoolExport"
          /\ UNCHANGED <<rets, result, logs>>
    /\ UNCHANGED <<entry, cfg, fs, lookPath, idx, missing, euid, xz, zr, pipeErr, outsideInstall>>

\* zpool set bootfs=<pool>/ROOT/default <pool>
FinalizeSetBootfs ==
    /\ pc = "finalizeInstallation"
    /\ \E r \in CmdResults :
          /\ cmds' = Ran("zpool set bootfs", r.err)
          /\ IF r.err # ""
             THEN Return("finalizeInstallation", CmdError("zpool set bootfs failed", r))
             ELSE /\ pc' = "zpoolExport"
                  /\ UNCHANGED <<rets, result, logs>>
    /\ UNCHANGED <<entry, cfg, fs, lookPath, idx, missing, euid, xz, zr, pipeErr, outsideInstall>>

\* zpool export <pool>
FinalizeExport ==
    /\ pc = "zpoolExport"
    /\ \E r \in CmdResults :
          /\ cmds' = Ran("zpool export", r.err)
          /\ Return("finalizeInstallation",
                    IF r.err # "" THEN CmdError("zpool export failed", r) ELSE Nil)
    /\ UNCHANGED <<entry, cfg, fs, lookPath, idx, missing, euid, xz, zr, pipeErr, outsideInstall>>

-----------------------------------------------------------------------------
(* addMBRBootCode, iso.go lines 624-726 *)

\* addMBRBootCode returns err, to createISOWithMakefs if that called it
ReturnMBR(err) ==
    /\ result' = err
    /\ pc' = IF entry = "addMBRBootCode" THEN "done" ELSE "addMBRBootCodeReturned"

\* what a write that fails has put into the file: nothing, or half its bytes
Partial(b) == {<<>>, SubSeq(b, 1, Len(b) \div 2)}

\* lines 625-644: the search for the boot blob
FindIsoboot ==
    /\ pc = "addMBRBootCode"
    /\ isobootPath' = findIsoboot(isobootPaths(FreebsdRoot, IsoRoot), bootFiles)
    /\ IF isobootPath' = ""
       THEN ReturnMBR(<<"isoboot file not found">> \o isobootPaths(FreebsdRoot, IsoRoot))
       ELSE pc' = "readIsoboot" /\ result' = result
    /\ UNCHANGED <<entry, outsideMBR, bootFiles, blobLen, iso, isoSize0, isoboot, opened, isoSectors, writes>>

\* lines 647-650: os.ReadFile(isobootPath)
ReadIsoboot ==
    /\ pc = "readIsoboot"
    /\ \E e \in IF isobootPath \in bootFiles THEN {"", "EACCES"} ELSE {"ENOENT"} :
          IF e # ""
          THEN ReturnMBR(<<"failed to read isoboot", e>>) /\ isoboot' = isoboot
          ELSE pc' = "openISO" /\ result' = result /\ isoboot' = ReadFile(isobootPath, blobLen)
    /\ UNCHANGED <<entry, outsideMBR, bootFiles, blobLen, iso, isoSize0, isobootPath, opened, isoSectors, writes>>

\* lines 653-657: os.OpenFile(isoPath, os.O_RDWR, 0644)
OpenISO ==
    /\ pc = "openISO"
    /\ \E e \in {"", "EACCES"} :
          IF e # ""
          THEN ReturnMBR(<<"failed to open ISO", e>>) /\ opened' = opened
          ELSE pc' = "writeBootCode" /\ result' = result /\ opened' = TRUE
    /\ UNCHANGED <<entry, outsideMBR, bootFiles, blobLen, iso, isoSize0, isobootPath, isoboot, isoSectors, writes>>

\* lines 659-670: iso.WriteAt(isoboot[:bootCodeSize], 0)
WriteBootCode ==
    /\ pc = "writeBootCode"
    /\ LET b == SubSeq(isoboot, 1, bootCodeSize(Len(isoboot))) IN
          \/ /\ iso' = WriteAt(iso, b, 0)
             /\ writes' = Append(writes, [off |-> 0, ok |-> TRUE])
             /\ pc' = "statISO" /\ result' = result
          \/ /\ Len(b) > 0
             /\ \E w \in Partial(b) : iso' = WriteAt(iso, w, 0)
             /\ writes' = Append(writes, [off |-> 0, ok |-> FALSE])
             /\ ReturnMBR(<<"failed to write boot code", "EIO">>)
    /\ UNCHANGED <<entry, outsideMBR, bootFiles, blobLen, isoSize0, isobootPath, isoboot, opened, isoSectors>>

\* lines 673-678: iso.Stat() and the sector count
StatISO ==
    /\ pc = "statISO"
    /\ \E e \in {"", "EIO"} :
          IF e # ""
          THEN ReturnMBR(<<"failed to stat ISO", e>>) /\ isoSectors' = isoSectors
          ELSE pc' = "writePartitionTable" /\ result' = result
               /\ isoSectors' = sectorCount(iso.size)
    /\ UNCHANGED <<entry, outsideMBR, bootFiles, blobLen, iso, isoSize0, isobootPath, isoboot, opened, writes>>

\* the partition-table write with its error dropped
WritePartitionTableUnchecked ==
    /\ pc = "writePartitionTable"
    /\ \/ /\ iso' = WriteAt(iso, partitionTable(isoSectors), 446)
          /\ writes' = Append(writes, [off |-> 446, ok |-> TRUE])
       \/ /\ \E w \in Partial(partitionTable(isoSectors)) : iso' = WriteAt(iso, w, 446)
          /\ writes' = Append(writes, [off |-> 446, ok |-> FALSE])
    /\ pc' = "writeBootSig" /\ result' = result
    /\ UNCHANGED <<entry, outsideMBR, bootFiles, blobLen, isoSize0, isobootPath, isoboot, opened, isoSectors>>

\* lines 682-716: iso.WriteAt(partitionTable, 446)
WritePartitionTable ==
    /\ pc = "writePartitionTable"
    /\ \/ /\ iso' = WriteAt(iso, partitionTable(isoSectors), 446)
          /\ writes' = Append(writes, [off |-> 446, ok |-> TRUE])
          /\ pc' = "writeBootSig" /\ result' = result
       \/ /\ \E w \in Partial(partitionTable(isoSectors)) : iso' = WriteAt(iso, w, 446)
          /\ writes' = Append(writes, [off |-> 446, ok |-> FALSE])
          /\ ReturnMBR(<<"failed to write partition table", "EIO">>)
    /\ UNCHANGED <<entry, outsideMBR, bootFiles, blobLen, isoSize0, isobootPath, isoboot, opened, isoSectors>>

\* lines 719-725: iso.WriteAt(bootSig, 510), and the return of nil
WriteBootSig ==
    /\ pc = "writeBootSig"
    /\ \/ /\ iso' = WriteAt(iso, bootSig, 510)
          /\ writes' = Append(writes, [off |-> 510, ok |-> TRUE])
          /\ ReturnMBR(Nil)
       \/ /\ \E w \in Partial(bootSig) : iso' = WriteAt(iso, w, 510)
          /\ writes' = Append(writes, [off |-> 510, ok |-> FALSE])
          /\ ReturnMBR(<<"failed to write boot signature", "EIO">>)
    /\ UNCHANGED <<entry, outsideMBR, bootFiles, blobLen, isoSize0, isobootPath, isoboot, opened, isoSectors>>

-----------------------------------------------------------------------------
(* The ISO builder, internal/iso/iso.go lines 42-111 and 397-620 *)

\* Build returns err
ReturnBuild(err) == pc' = "done" /\ result' = err

\* lines 106-108: assembleISO returns err to Build, which wraps it
ReturnAssemble(err) ==
    ReturnBuild(IF err = Nil THEN Nil ELSE <<"failed to assemble ISO">> \o err)

\* lines 42-103: the directories and steps 1 to 5
Prepare ==
    /\ pc = "Build"
    /\ \/ pc' = "assembleISO" /\ result' = result
       \/ \E k \in 1..Len(BuildSteps) : ReturnBuild(<<BuildSteps[k], "error">>)
    /\ UNCHANGED <<entry, outsideBuild, mbrVars, buildVars>>

\* lines 414-424: os.Stat(<isoRoot>/boot/cdboot)
StatCdboot ==
    /\ pc = "assembleISO"
    /\ hasCdboot' = cdboot
    /\ isoLog' = IF cdboot THEN Append(isoLog, "BIOS boot file found: boot/cdboot")
                 ELSE Append(isoLog, "BIOS boot file not found")
    /\ pc' = "detectISOTool"
    /\ UNCHANGED <<entry, result, outsideBuild, mbrVars, toolFiles, pathTools, cdboot,
                   isoTool, toolExit, outputs>>

\* lines 427-428 and 444: isoTool, isoToolPath := b.detectISOTool()
DetectISOTool ==
    /\ pc = "detectISOTool"
    /\ isoTool' \in detectISOTool(toolFiles, pathTools)
    /\ pc' = IF isoTool'.tool = "" THEN "createTarArchive" ELSE "createISOWithTool"
    /\ UNCHANGED <<entry, result, outsideBuild, mbrVars, toolFiles, pathTools, cdboot,
                   hasCdboot, toolExit, outputs, isoLog>>

\* lines 428-442: no tool, a tar archive beside the place of the ISO
CreateTarArchive ==
    /\ pc = "createTarArchive"
    /\ \/ /\ outputs' = outputs \cup {"tar.gz"}
          /\ isoLog' = isoLog \o <<"No ISO creation tool found", "Created tar archive">>
          /\ ReturnAssemble(Nil)
       \/ /\ outputs' = outputs
          /\ isoLog' = Append(isoLog, "No ISO creation tool found")
          /\ ReturnAssemble(<<"tar archive creation failed", "error">>)
    /\ UNCHANGED <<entry, outsideBuild, mbrVars, toolFiles, pathTools, cdboot, hasCdboot,
                   isoTool, toolExit>>

\* lines 459-461, 510-521, 729-824: createISOWithTool with a tool other than
\* makefs: the tool is run and its error returned
CreateISOWithTool ==
    /\ pc = "createISOWithTool"
    /\ isoTool.tool # "makefs"
    /\ \/ /\ toolExit' = "ok"
          /\ outputs' = outputs \cup {"iso"}
          /\ pc' = "verifyISO" /\ result' = result
       \/ /\ toolExit' = "failed"
          /\ outputs' = outputs
          /\ ReturnAssemble(<<isoTool.tool \o " failed", "command failed">>)
    /\ UNCHANGED <<entry, outsideBuild, mbrVars, toolFiles, pathTools, cdboot, hasCdboot,
                   isoTool, isoLog>>

\* lines 525-608: createISOWithMakefs up to the end of makefs
RunMakefs ==
    /\ pc = "createISOWithTool"
    /\ isoTool.tool = "makefs"
    /\ \/ /\ toolExit' = "ok"
          /\ outputs' = outputs \cup {"iso"}
          /\ \E size \in MakefsSizes : isoSize0' = size /\ iso' = ISOFile(size)
          /\ pc' = IF hasCdboot THEN "addMBRBootCode" ELSE "verifyISO"
          /\ result' = result
       \/ /\ toolExit' = "failed"
          /\ UNCHANGED <<outputs, isoSize0, iso>>
          /\ ReturnAssemble(<<"makefs failed", "command failed">>)
    /\ UNCHANGED <<entry, outsideBuild, bootFiles, blobLen, isobootPath, isoboot, opened,
                   isoSectors, writes, toolFiles, pathTools, cdboot, hasCdboot, isoTool,
                   isoLog>>

\* createISOWithMakefs returning the error of addMBRBootCode
AfterMBRFailing ==
    /\ pc = "addMBRBootCodeReturned"
    /\ isoLog' = isoLog
    /\ IF result # Nil THEN ReturnAssemble(<<"makefs failed">> \o result)
       ELSE pc' = "verifyISO" /\ result' = Nil
    /\ UNCHANGED <<entry, outsideBuild, mbrVars, toolFiles, pathTools, cdboot, hasCdboot,
                   isoTool, toolExit, outputs>>

\* lines 612-619: the error of addMBRBootCode is logged, nil is returned
AfterMBR ==
    /\ pc = "addMBRBootCodeReturned"
    /\ isoLog' = Append(isoLog, IF result # Nil THEN "Failed to add MBR boot code"
                                ELSE "Created hybrid ISO")
    /\ result' = Nil
    /\ pc' = "verifyISO"
    /\ UNCHANGED <<entry, outsideBuild, mbrVars, toolFiles, pathTools, cdboot, hasCdboot,
                   isoTool, toolExit, outputs>>

\* lines 466-474 and 106-111: os.Stat(outputPath), and the return of Build
VerifyISO ==
    /\ pc = "verifyISO"
    /\ ReturnAssemble(IF "iso" \in outputs THEN Nil
                      ELSE <<"ISO verification failed", "ENOENT">>)
    /\ UNCHANGED <<entry, outsideBuild, mbrVars, buildVars>>

-----------------------------------------------------------------------------
(* FetchArchives, internal/fetch/freebsd.go lines 46-106 and 229-297 *)

\* FetchArchives returns (basePath, kernelPath, err)
ReturnFetch(basePath, kernelPath, err) ==
    pc' = "done" /\ fetched' = <<basePath, kernelPath>> /\ result' = err

\* lines 50-74: the destination directory and the cached archives
CheckCache ==
    /\ pc = "FetchArchives"
    /\ \E e \in {"", "EACCES"} :
          IF e # ""
          THEN /\ ReturnFetch("", "", <<"failed to create destination directory", e>>)
               /\ UNCHANGED <<baseExists, kernelExists>>
          ELSE IF disk.base # "" /\ disk.kernel # ""
          THEN /\ baseExists' = (verifyArchive(disk.base) = Nil)
               /\ kernelExists' = (verifyArchive(disk.kernel) = Nil)
               /\ IF baseExists' /\ kernelExists'
                  THEN ReturnFetch(filepathJoin(DestDir, "base.txz"),
                                   filepathJoin(DestDir, "kernel.txz"), Nil)
                  ELSE pc' = "downloadBase" /\ UNCHANGED <<fetched, result>>
          ELSE /\ baseExists' = (disk.base # "")
               /\ kernelExists' = (disk.kernel # "")
               /\ pc' = "downloadBase" /\ UNCHANGED <<fetched, result>>
    /\ UNCHANGED <<entry, outsideFetch, disk, mirror, checksums, verifyErr>>

\* lines 81-87: base.txz is downloaded unless it is there
DownloadBase ==
    /\ pc = "downloadBase"
    /\ IF baseExists
       THEN pc' = "downloadKernel" /\ UNCHANGED <<disk, fetched, result>>
       ELSE IF mirror.base = ""
       THEN /\ ReturnFetch("", "", <<"failed to download base.txz", "download failed">>)
            /\ disk' = disk
       ELSE /\ disk' = [disk EXCEPT !.base = mirror.base]
            /\ pc' = "downloadKernel" /\ UNCHANGED <<fetched, result>>
    /\ UNCHANGED <<entry, outsideFetch, mirror, baseExists, kernelExists, checksums, verifyErr>>

\* lines 89-95: kernel.txz is downloaded unless it is there
DownloadKernel ==
    /\ pc = "downloadKernel"
    /\ IF kernelExists
       THEN pc' = "verifyChecksums" /\ UNCHANGED <<disk, fetched, result>>
       ELSE IF mirror.kernel = ""
       THEN /\ ReturnFetch("", "", <<"failed to download kernel.txz", "download failed">>)
            /\ disk' = disk
       ELSE /\ disk' = [disk EXCEPT !.kernel = mirror.kernel]
            /\ pc' = "verifyChecksums" /\ UNCHANGED <<fetched, result>>
    /\ UNCHANGED <<entry, outsideFetch, mirror, baseExists, kernelExists, checksums, verifyErr>>

\* lines 299-319
verifyChecksum(c, expectedHash) ==
    IF SHA256(c) # expectedHash
    THEN <<"checksum mismatch", expectedHash, SHA256(c)>>
    ELSE Nil

\* lines 229-297: the error downloadAndVerifyChecksums returns
downloadAndVerifyChecksums(m, sums) ==
    IF m.status = 0 THEN <<"failed to download MANIFEST">>
    ELSE IF m.status # 200 THEN <<"MANIFEST not found">>
    ELSE IF "base.txz" \in DOMAIN sums /\ verifyChecksum(disk.base, sums["base.txz"]) # Nil
         THEN <<"base.txz checksum mismatch">> \o verifyChecksum(disk.base, sums["base.txz"])
    ELSE IF "kernel.txz" \in DOMAIN sums /\ verifyChecksum(disk.kernel, sums["kernel.txz"]) # Nil
         THEN <<"kernel.txz checksum mismatch">> \o verifyChecksum(disk.kernel, sums["kernel.txz"])
    ELSE Nil

\* lines 98-105: the checksums are verified, and the archives returned
VerifyChecksums ==
    /\ pc = "verifyChecksums"
    /\ checksums' = IF mirror.manifest.status = 200
                    THEN parseManifest(mirror.manifest.lines) ELSE checksums
    /\ verifyErr' = downloadAndVerifyChecksums(mirror.manifest, checksums')
    /\ ReturnFetch(filepathJoin(DestDir, "base.txz"), filepathJoin(DestDir, "kernel.txz"), Nil)
    /\ UNCHANGED <<entry, outsideFetch, disk, mirror, baseExists, kernelExists>>

-----------------------------------------------------------------------------
(* The installer TUI, pgsd-inst/main.go lines 14-582 *)

\* the keys pressed: those the program knows, and one it does not
Keys == {"ctrl+c", "q", "enter", "up", "k", "down", "j", "y", "Y", "n", "N", "x"}

\* the images and disks found, by index
ImageIDs == <<"pgsd-desktop", "pgsd-server", "pgsd-minimal">>

DiskDevices == <<"ada0", "ada1", "da0">>

\* what Update returns: the next model and the command ("none": nil)
Answer(mm, cmd) == [model |-> mm, cmd |-> cmd]

\* quitting allowed in every state
blocksQuitNever(st) == FALSE

\* lines 86-88: no quit during installation
blocksQuit(st) == st = "Installing"

\* the confirm screen staying up once the installation is started
onConfirmStay(mm, key) ==
    IF key \in {"y", "Y"} THEN Answer(mm, "install")
    ELSE IF key \in {"n", "N"}
    THEN Answer([mm EXCEPT !.state = "DiskSelect", !.cursor = mm.selectedDisk], "none")
    ELSE Answer(mm, "none")

\* lines 155-163: the confirm screen
onConfirm(mm, key) ==
    IF key \in {"y", "Y"} THEN Answer([mm EXCEPT !.state = "Installing"], "install")
    ELSE IF key \in {"n", "N"}
    THEN Answer([mm EXCEPT !.state = "DiskSelect", !.cursor = mm.selectedDisk], "none")
    ELSE Answer(mm, "none")

\* lines 111-118 and 139-146: the cursor in a list of n entries
moveCursor(mm, key, n) ==
    IF key \in {"up", "k"} /\ mm.cursor > 0 THEN [mm EXCEPT !.cursor = mm.cursor - 1]
    ELSE IF key \in {"down", "j"} /\ mm.cursor < n - 1 THEN [mm EXCEPT !.cursor = mm.cursor + 1]
    ELSE mm

\* lines 83-172: handleKey; imgs and dsks are what loadImages and loadDisks
\* answer if they are called (a negative number: an error)
handleKey(mm, key, imgs, dsks) ==
    IF key \in {"ctrl+c", "q"}
    THEN Answer(mm, IF blocksQuit(mm.state) THEN "none" ELSE "quit")
    ELSE IF mm.state = "Welcome"
    THEN IF key # "enter" THEN Answer(mm, "none")
         ELSE IF imgs < 0
         THEN Answer([mm EXCEPT !.err = "failed to read images directory", !.state = "Error"], "none")
         ELSE IF imgs = 0
         THEN Answer([mm EXCEPT !.err = "no system images found", !.state = "Error"], "none")
         ELSE Answer([mm EXCEPT !.images = imgs, !.state = "ImageSelect"], "none")
    ELSE IF mm.state = "ImageSelect"
    THEN IF key # "enter" THEN Answer(moveCursor(mm, key, mm.images), "none")
         ELSE IF dsks < 0
         THEN Answer([mm EXCEPT !.selectedImg = mm.cursor, !.cursor = 0,
                                !.err = "failed to load disks", !.state = "Error"], "none")
         ELSE IF dsks = 0
         THEN Answer([mm EXCEPT !.selectedImg = mm.cursor, !.cursor = 0,
                                !.err = "no disks found", !.state = "Error"], "none")
         ELSE Answer([mm EXCEPT !.selectedImg = mm.cursor, !.cursor = 0,
                                !.disks = dsks, !.state = "DiskSelect"], "none")
    ELSE IF mm.state = "DiskSelect"
    THEN IF key # "enter" THEN Answer(moveCursor(mm, key, mm.disks), "none")
         ELSE Answer([mm EXCEPT !.selectedDisk = mm.cursor, !.state = "Confirm"], "none")
    ELSE IF mm.state = "Confirm" THEN onConfirm(mm, key)
    ELSE IF mm.state \in {"Complete", "Error"}
    THEN Answer(mm, IF key = "enter" THEN "quit" ELSE "none")
    ELSE Answer(mm, "none")

\* lines 65-81: Update on the messages of the installation
update(mm, msg) ==
    IF msg.type = "installLogMsg"
    THEN [mm EXCEPT !.installLog = Append(mm.installLog, msg.text)]
    ELSE IF msg.type = "installCompleteMsg" THEN [mm EXCEPT !.state = "Complete"]
    ELSE IF msg.type = "installErrorMsg" THEN [mm EXCEPT !.err = msg.text, !.state = "Error"]
    ELSE mm

\* what Install hands to cfg.LogFunc when it fails in stage number o, and
\* when it succeeds (o = 0)
InstallLog(o) ==
    IF o = 0
    THEN [k \in 1..Len(Stages) |-> StageLog[Stages[k]]] \o <<"Installation complete!">>
    ELSE [k \in 1..o |-> StageLog[Stages[k]]]

logMsg(text) == [type |-> "installLogMsg", text |-> text]

\* lines 516-575: the messages of the commands performInstallation batches
performInstallation(mm, o) ==
    LET lines == <<"Starting installation...",
                  "Image: " \o ImageIDs[mm.selectedImg + 1],
                  "Target disk: " \o DiskDevices[mm.selectedDisk + 1]>> \o InstallLog(o)
    IN  [k \in 1..Len(lines) |-> logMsg(lines[k])]
        \o (IF o # 0
            THEN <<[type |-> "installErrorMsg", text |-> StageErr[Stages[o]]]>>
            ELSE <<logMsg("Installation complete!"),
                   [type |-> "installCompleteMsg", text |-> ""]>>)

\* Update on a key message; loadImages (lines 314-348) answers an error, no
\* image or some images, loadDisks (lines 350-367) always some disks
HandleKey ==
    /\ entry = "pgsd-inst"
    /\ ~quit
    /\ \E key \in Keys :
       \E imgs \in IF model.state = "Welcome" /\ key = "enter" THEN -1..MaxItems ELSE {0},
          dsks \in IF model.state = "ImageSelect" /\ key = "enter" THEN 1..MaxItems ELSE {0} :
          /\ model' = handleKey(model, key, imgs, dsks).model
          /\ quit' = (handleKey(model, key, imgs, dsks).cmd = "quit")
          /\ installs' = installs + IF handleKey(model, key, imgs, dsks).cmd = "install" THEN 1 ELSE 0
          /\ inFlight' = inFlight + IF handleKey(model, key, imgs, dsks).cmd = "install" THEN 1 ELSE 0
          /\ lastMsg' = "KeyMsg"
    /\ UNCHANGED <<entry, pc, result, outsideTUI, batch, pending, overtakes>>

\* the installation command runs Install and returns the batch of its messages
InstallCommand ==
    /\ entry = "pgsd-inst"
    /\ ~quit
    /\ inFlight > 0
    /\ \E o \in 0..MaxFailStage :
          /\ batch' = batch \o performInstallation(model, o)
          /\ pending' = pending \cup ((Len(batch) + 1)..Len(batch'))
    /\ inFlight' = inFlight - 1
    /\ UNCHANGED <<entry, pc, result, outsideTUI, model, quit, lastMsg, installs, overtakes>>

\* tea.Batch runs its commands concurrently: Update receives the message of
\* any command whose message it has not had yet
Deliver ==
    /\ entry = "pgsd-inst"
    /\ ~quit
    /\ \E i \in pending :
          /\ overtakes + Cardinality({j \in pending : j < i}) <= MaxOvertakes
          /\ overtakes' = overtakes + Cardinality({j \in pending : j < i})
          /\ model' = update(model, batch[i])
          /\ lastMsg' = batch[i].type
          /\ pending' = pending \ {i}
    /\ UNCHANGED <<entry, pc, result, outsideTUI, quit, installs, inFlight, batch>>

-----------------------------------------------------------------------------

Next ==
    \/ Validate
    \/ CheckRequirements
    \/ PartitionStep
    \/ CreateEFIFilesystem
    \/ CreateZFSPool
    \/ ExtractStat
    \/ StartZfs
    \/ StartXzcat
    \/ XzcatExit
    \/ ZfsExit
    \/ WaitXzcat
    \/ WaitZfs
    \/ CopyEFIPartition
    \/ InstallBootloader
    \/ FinalizeSetBootfs
    \/ FinalizeExport

Spec == Init /\ [][Next]_vars

\* extractZFSStream called on its own, on any stream file
NextExtract ==
    \/ ExtractStat
    \/ StartZfs
    \/ StartXzcat
    \/ XzcatExit
    \/ ZfsExit
    \/ WaitXzcat
    \/ WaitZfs

SpecExtract == InitExtract /\ [][NextExtract]_vars

\* addMBRBootCode called on its own
NextMBR ==
    \/ FindIsoboot
    \/ ReadIsoboot
    \/ OpenISO
    \/ WriteBootCode
    \/ StatISO
    \/ WritePartitionTable
    \/ WriteBootSig

SpecMBR == InitMBR /\ [][NextMBR]_vars

\* Builder.Build, with addMBRBootCode on the makefs path
NextBuild ==
    \/ Prepare
    \/ StatCdboot
    \/ DetectISOTool
    \/ CreateTarArchive
    \/ CreateISOWithTool
    \/ RunMakefs
    \/ NextMBR
    \/ AfterMBR
    \/ VerifyISO

SpecBuild == InitBuild /\ [][NextBuild]_vars

\* FetchArchives on any cache and mirror
NextFetch ==
    \/ CheckCache
    \/ DownloadBase
    \/ DownloadKernel
    \/ VerifyChecksums

SpecFetch == InitFetch /\ [][NextFetch]_vars

\* a session of the installer TUI
NextTUI ==
    \/ HandleKey
    \/ InstallCommand
    \/ Deliver

SpecTUI == InitTUI /\ [][NextTUI]_vars

TypeOK ==
    /\ entry \in {"Install", "extractZFSStream", "addMBRBootCode", "FetchArchives", "pgsd-inst",
                 "Build"}
    /\ pc \in {"Install", "checkRequirements", "partitionDisk", "createEFIFilesystem",
               "createZFSPool", "extractZFSStream", "startZfs", "startXzcat", "waitXzcat",
               "waitZfs", "copyEFIPartition", "installBootloader", "finalizeInstallation",
               "zpoolExport", "done",
               "addMBRBootCode", "readIsoboot", "openISO", "writeBootCode", "statISO",
               "writePartitionTable", "writeBootSig",
               "FetchArchives", "downloadBase", "downloadKernel", "verifyChecksums", "Run",
               "Build", "assembleISO", "detectISOTool", "createTarArchive",
               "createISOWithTool", "addMBRBootCodeReturned", "verifyISO"}
    /\ toolFiles \subseteq KnownPaths
    /\ pathTools \subseteq Range(ISOTools)
    /\ cdboot \in BOOLEAN /\ hasCdboot \in BOOLEAN
    /\ isoTool.tool \in Range(ISOTools) \cup {""}
    /\ toolExit \in {"none", "ok", "failed"}
    /\ outputs \subseteq {"iso", "tar.gz"}
    /\ model.state \in {"Welcome", "ImageSelect", "DiskSelect", "Confirm", "Installing",
                        "Complete", "Error"}
    /\ model.images \in 0..MaxItems /\ model.disks \in 0..MaxItems
    /\ model.cursor \in 0..MaxItems
    /\ pending \subseteq 1..Len(batch)
    /\ overtakes \in 0..MaxOvertakes
    /\ disk \in [base : Contents \cup {""}, kernel : Contents \cup {""}]
    /\ DOMAIN checksums \subseteq {"base.txz", "kernel.txz"}
    /\ bootFiles \subseteq BootBlobs
    /\ blobLen \in BlobLens
    /\ Len(iso.data) = Kept(iso.size)
    /\ \A k \in 1..Len(iso.data) : iso.data[k] \in 0..255
    /\ isobootPath \in BootBlobs \cup {""}
    /\ opened \in BOOLEAN
    /\ idx \in 1..Len(commands)
    /\ euid \in {-1, 0, 1001}

-----------------------------------------------------------------------------
(* Vocabulary of the properties *)

\* names of the external programs run so far, in order
CmdNames == [k \in 1..Len(cmds) |-> cmds[k].name]

\* the stage functions that have returned so far, in order
RetStages == [k \in 1..Len(rets) |-> rets[k].stage]

Returned(stage) == \E k \in 1..Len(rets) : rets[k].stage = stage

RetOf(stage) == rets[CHOOSE k \in 1..Len(rets) : rets[k].stage = stage].err

\* the command sequence of the documented pipeline (docs/INSTALLER.md)
PipelineCommands ==
    << "gpart destroy", "gpart create", "gpart add efi", "gpart add freebsd-zfs",
       "newfs_msdos", "zpool create", "zfs receive", "xzcat", "dd",
       "gpart bootcode", "zpool set bootfs", "zpool export" >>

\* the stage each external program belongs to
StageOfCommand(name) ==
    CASE name \in {"gpart destroy", "gpart create", "gpart add efi",
                   "gpart add freebsd-zfs"}       -> "partition disk"
      [] name = "newfs_msdos"                     -> "format EFI partition"
      [] name = "zpool create"                    -> "create pool"
      [] name \in {"zfs receive", "xzcat"}        -> "stream transfer"
      [] name = "dd"                              -> "EFI image copy"
      [] name = "gpart bootcode"                  -> "bootloader install"
      [] name \in {"zpool set bootfs", "zpool export"} -> "finalize"

\* the stages in the order their first command ran, each listed once per run
\* of consecutive commands
StageTrace ==
    LET st == [k \in 1..Len(cmds) |-> StageOfCommand(cmds[k].name)]
        starts == {k \in 1..Len(cmds) : k = 1 \/ st[k] # st[k - 1]}
        nth(n) == CHOOSE k \in starts : Cardinality({j \in starts : j <= k}) = n
    IN  [n \in 1..Cardinality(starts) |-> st[nth(n)]]

RootZFS == Join(ImageDir, "root.zfs.xz")

\* the configuration and image directory pass the documented validation rules
ValidInput ==
    /\ cfg.ImagePath # "" /\ cfg.TargetDisk # "" /\ cfg.ZpoolName # <<>>
    /\ \A p \in Paths : fs[p].err = ""
    /\ Len(cfg.ZpoolName) <= 63
    /\ \A k \in 1..Len(cfg.ZpoolName) : cfg.ZpoolName[k] \notin {" ", "/", "\\"}

\* nothing the run has asked of its environment has failed so far
NothingFailed ==
    /\ missing = <<>>
    /\ euid # 1001
    /\ pipeErr = ""
    /\ \A k \in 1..Len(cmds) : cmds[k].ok
    /\ xz.err = "" /\ zr.err = ""

\* C1: a valid configuration, every tool present, root, and every external
\* command succeeding: Install returns nil and has run the seven stages once
\* each in the order partition, EFI format, pool create, transfer, EFI copy,
\* bootloader, finalize.
C1_SuccessRunsStagesInOrder ==
    (entry = "Install" /\ pc = "done" /\ ValidInput /\ NothingFailed) =>
        /\ result = Nil
        /\ StageTrace = << "partition disk", "format EFI partition", "create pool",
                           "stream transfer", "EFI image copy", "bootloader install",
                           "finalize" >>
        /\ RetStages = << "validateConfig", "checkRequirements", "partitionDisk",
                          "createEFIFilesystem", "createZFSPool", "extractZFSStream",
                          "copyEFIPartition", "installBootloader", "finalizeInstallation" >>

C1_Witness ==
    /\ entry = "Install" /\ pc = "done" /\ ValidInput /\ NothingFailed
    /\ result = Nil
    /\ CmdNames = PipelineCommands

\* C2: when Install fails in validation or in requirements checking, no
\* external program has been run (or even started).
C2_NoCommandBeforeChecksPass ==
    (/\ entry = "Install"
     /\ \/ ~ValidInput
        \/ missing # <<>>
        \/ euid = 1001
        \/ pc = "done" /\ result # Nil /\ Len(rets) <= 2)
    => /\ cmds = <<>>
       /\ xz.st = "unstarted" /\ zr.st = "unstarted"

C2_Witness ==
    /\ entry = "Install" /\ pc = "done" /\ ValidInput
    /\ Len(missing) = 2
    /\ result # Nil
    /\ cmds = <<>>

\* C3: a failing Install returns the error of the stage that failed, wrapped
\* under that stage's message; the stages before it all succeeded, none ran
\* twice, and no command of a later stage was run.
C3_ErrorNamesFailedStage ==
    (entry = "Install" /\ pc = "done" /\ result # Nil) =>
        LET last == rets[Len(rets)] IN
        /\ Len(rets) >= 1
        /\ last.err # Nil
        /\ \A k \in 1..(Len(rets) - 1) : rets[k].err = Nil
        /\ RetStages = SubSeq(<< "validateConfig", "checkRequirements", "partitionDisk",
                                 "createEFIFilesystem", "createZFSPool", "extractZFSStream",
                                 "copyEFIPartition", "installBootloader",
                                 "finalizeInstallation" >>, 1, Len(rets))
        /\ result[1] = StageErr[last.stage]
        /\ Len(result) >= 1 + Len(last.err)
        /\ SubSeq(result, 2, 1 + Len(last.err)) = last.err
        /\ \A k \in 1..Len(cmds) :
              StageOfCommand(cmds[k].name) \in
                 CASE last.stage \in {"validateConfig", "checkRequirements"} -> {}
                   [] last.stage = "partitionDisk" -> {"partition disk"}
                   [] last.stage = "createEFIFilesystem" ->
                        {"partition disk", "format EFI partition"}
                   [] last.stage = "createZFSPool" ->
                        {"partition disk", "format EFI partition", "create pool"}
                   [] last.stage = "extractZFSStream" ->
                        {"partition disk", "format EFI partition", "create pool",
                         "stream transfer"}
                   [] last.stage = "copyEFIPartition" ->
                        {"partition disk", "format EFI partition", "create pool",
                         "stream transfer", "EFI image copy"}
                   [] last.stage = "installBootloader" ->
                        {"partition disk", "format EFI partition", "create pool",
                         "stream transfer", "EFI image copy", "bootloader install"}
                   [] last.stage = "finalizeInstallation" ->
                        {"partition disk", "format EFI partition", "create pool",
                         "stream transfer", "EFI image copy", "bootloader install",
                         "finalize"}

C3_Witness ==
    /\ entry = "Install" /\ pc = "done"
    /\ result[1] = "root filesystem extraction failed"
    /\ result[2] = "zfs receive failed"
    /\ CmdNames = SubSeq(PipelineCommands, 1, 8)

TransferReturned == Returned("extractZFSStream")

TransferErr == RetOf("extractZFSStream")

Reaped(p) == p.st \in {"unstarted", "startfailed", "waited"}

C6_DecompressorFailureNamesDecompression ==
    (/\ TransferReturned
     /\ xz.st \in {"exited", "waited"} /\ xz.err # "")
    => /\ TransferErr # Nil
       /\ TransferErr[1] = "xzcat decompression failed"
       /\ entry = "Install" => (pc = "done" /\ result[2] = "xzcat decompression failed")

C6_Witness ==
    /\ entry = "Install" /\ TransferReturned
    /\ xz.err = "exit status 1"
    /\ zr.st = "exited" /\ zr.err = "exit status 1"
    /\ result[2] = "xzcat decompression failed"

\* C7: once the transfer has returned, every process it started has exited
\* and has been waited for.
C7_NoProcessOutlivesTransfer ==
    TransferReturned => (Reaped(xz) /\ Reaped(zr))

\* C8: when a process of the pipe exits non-zero and the transfer reports it,
\* the error holds the text that process wrote to its stderr.
C8_ErrorCarriesStderr ==
    TransferReturned =>
        /\ (xz.st = "waited" /\ xz.err # "") =>
              (Contains(TransferErr, xz.stderr) /\ Contains(result, xz.stderr))
        /\ (zr.st = "waited" /\ zr.err # "") =>
              (Contains(TransferErr, zr.stderr) /\ Contains(result, zr.stderr))

StartedNothing ==
    /\ xz.st = "unstarted" /\ zr.st = "unstarted"
    /\ \A k \in 1..Len(cmds) : cmds[k].name \notin {"zfs receive", "xzcat"}

\* C9 (as stated): a stream file that is missing or has length zero is
\* rejected before either process is started.
C9_MissingOrEmptyStreamStartsNothing ==
    (fs[RootZFS].err # "" \/ fs[RootZFS].size = 0) => StartedNothing

\* C9 (amended): a stream file that is missing or cannot be accessed is
\* rejected before either process is started; the length of the file is not
\* examined, so on a zero-length file the transfer goes on to start zfs receive.
C9_MissingStreamStartsNothing ==
    /\ fs[RootZFS].err # "" =>
          /\ StartedNothing
          /\ TransferReturned =>
                TransferErr[1] \in {"ZFS stream file not found", "cannot access ZFS stream file"}
    /\ (fs[RootZFS] = StatEmpty /\ TransferReturned /\ pipeErr = "") =>
          \E k \in 1..Len(cmds) : cmds[k].name = "zfs receive"

C9_Witness ==
    /\ entry = "extractZFSStream" /\ pc = "done"
    /\ fs[RootZFS] = StatNotExist
    /\ result[1] = "ZFS stream file not found"
    /\ StartedNothing

CmdOK(name) == \E k \in 1..Len(cmds) : cmds[k].name = name /\ cmds[k].ok

\* number of partitioning commands run
PartitionCmds == Cardinality({k \in 1..Len(cmds) : StageOfCommand(cmds[k].name) = "partition disk"})

\* C10: partitionDisk returns nil exactly when gpart create and both gpart
\* add commands succeeded, whatever gpart destroy did; otherwise its error
\* names the first of create/add that failed, and that command is the last
\* partitioning command run.
C10_PartitionResult ==
    Returned("partitionDisk") =>
        LET e == RetOf("partitionDisk")
            n == PartitionCmds
        IN  /\ e = Nil <=> /\ CmdOK("gpart create")
                           /\ CmdOK("gpart add efi")
                           /\ CmdOK("gpart add freebsd-zfs")
            /\ e = Nil => n = 4
            /\ e # Nil =>
                  /\ n \in 2..4
                  /\ cmds[n].name # "gpart destroy" /\ ~cmds[n].ok
                  /\ e[2] = cmds[n].name
                  /\ \A j \in 2..(n - 1) : cmds[j].ok
                  /\ CmdNames = SubSeq(<< "gpart destroy", "gpart create", "gpart add efi",
                                          "gpart add freebsd-zfs" >>, 1, n)

C10_Witness ==
    /\ Returned("partitionDisk")
    /\ RetOf("partitionDisk") = Nil
    /\ ~cmds[1].ok
    /\ PartitionCmds = 4

-----------------------------------------------------------------------------
(* Requirements and validation *)

\* the tool names listed in a "required commands not found" error
ListedTools(err) == {err[k] : k \in 2..Len(err)}

\* C11: whatever subset of the six required tools is absent from PATH, the
\* requirements error lists exactly the absent tools, each once, in one error
\* (and that error is what Install returns, under the requirements message).
C11_MissingToolsListedExactly ==
    (entry = "Install" /\ Returned("checkRequirements") /\ lookPath # Tools) =>
        LET e == RetOf("checkRequirements") IN
        /\ Len(e) >= 1
        /\ e[1] = "required commands not found"
        /\ ListedTools(e) = {"gpart", "newfs_msdos", "zpool", "zfs", "xzcat", "dd"} \ lookPath
        /\ Len(e) = 1 + Cardinality({"gpart", "newfs_msdos", "zpool", "zfs", "xzcat", "dd"} \ lookPath)
        /\ pc = "done"
        /\ Len(result) = 1 + Len(e)
        /\ result = <<"system requirements not met">> \o e

C11_Witness ==
    /\ entry = "Install" /\ pc = "done"
    /\ lookPath = {"gpart", "zpool", "dd"}
    /\ result = <<"system requirements not met", "required commands not found",
                  "newfs_msdos", "zfs", "xzcat">>

\* the image directory exists, the three config fields are set, and at least
\* one required file does not exist
LacksRequiredFile ==
    /\ cfg.ImagePath # "" /\ cfg.TargetDisk # "" /\ cfg.ZpoolName # <<>>
    /\ fs[<<ImageDir>>] = StatOK
    /\ \E k \in 1..3 : fs[Join(ImageDir, requiredFiles[k])] = StatNotExist

RestOfConfigValid ==
    /\ cfg.ImagePath # "" /\ cfg.TargetDisk # ""
    /\ \A p \in Paths : fs[p].err = ""

HasChar(name, chars) == \E k \in 1..Len(name) : name[k] \in chars

\* C13: with the rest of the configuration valid, a pool name of 64 (or more)
\* characters is rejected, one of 63 characters without a space, '/' or '\' is
\* accepted, and a name of any length holding a space, '/' or '\' is rejected.
C13_PoolNameBoundary ==
    (entry = "Install" /\ Returned("validateConfig") /\ RestOfConfigValid) =>
        LET e == RetOf("validateConfig") IN
        /\ Len(cfg.ZpoolName) >= 64 => e # Nil
        /\ (Len(cfg.ZpoolName) = 63 /\ ~HasChar(cfg.ZpoolName, {" ", "/", "\\"})) => e = Nil
        /\ HasChar(cfg.ZpoolName, {" ", "/", "\\"}) => e # Nil

C13_Witness ==
    /\ entry = "Install" /\ Returned("validateConfig") /\ RestOfConfigValid
    /\ Len(cfg.ZpoolName) = 63
    /\ RetOf("validateConfig") = Nil
    /\ pc = "checkRequirements"

\* C14 (as stated): a pool name that passes validation is non-empty, at most
\* 63 characters long, and holds no whitespace of any kind and no '/' or '\'.
C14_ValidatedNameHasNoWhitespace ==
    (entry = "Install" /\ Returned("validateConfig") /\ RetOf("validateConfig") = Nil) =>
        /\ cfg.ZpoolName # <<>>
        /\ Len(cfg.ZpoolName) <= 63
        /\ ~HasChar(cfg.ZpoolName, {" ", "\t", "\n", "\r", "/", "\\"})

\* C14 (amended): a pool name that passes validation is non-empty, at most 63
\* characters long, and holds no space and no '/' or '\'; a tab, newline or
\* carriage return is let through.
C14_ValidatedNameHasNoSpaceOrSlash ==
    (entry = "Install" /\ Returned("validateConfig") /\ RetOf("validateConfig") = Nil) =>
        /\ cfg.ZpoolName # <<>>
        /\ Len(cfg.ZpoolName) <= 63
        /\ ~HasChar(cfg.ZpoolName, {" ", "/", "\\"})

C14_Witness ==
    /\ entry = "Install" /\ Returned("validateConfig")
    /\ RetOf("validateConfig") = Nil
    /\ HasChar(cfg.ZpoolName, {"\t"})
    /\ \E k \in 1..Len(cmds) : cmds[k].name = "zpool create"

-----------------------------------------------------------------------------
(* The hybrid-boot write *)

\* addMBRBootCode has returned nil
Succeeded == entry = "addMBRBootCode" /\ pc = "done" /\ result = Nil

\* the byte of the target file at offset i
At(i) == iso.data[i + 1]

\* the bytes of the target file at offsets from..to
Bytes(from, to) == [k \in 1..(to - from + 1) |-> iso.data[from + k]]

\* the four little-endian bytes of min(ceil(size / 512), 2^32 - 1): the count
\* is h * 2^21 + l sectors, and it passes 2^32 - 1 when h reaches 2^11
SectorCountLE(size) ==
    LET n == (size.lo + 511) \div 512
        h == size.hi + (n \div 2097152)
        l == n % 2097152
    IN  IF h >= 2048 THEN <<255, 255, 255, 255>>
        ELSE <<l % 256, (l \div 256) % 256, (l \div 65536) + ((h % 8) * 32), h \div 8>>

\* the size of the target once the boot code is in it: max(S, min(L, 432))
SizeAfterBootCode ==
    IF isoSize0.hi = 0 /\ isoSize0.lo < blobLen /\ isoSize0.lo < 432
    THEN [hi |-> 0, lo |-> IF blobLen < 432 THEN blobLen ELSE 432]
    ELSE isoSize0

\* C15: after a successful hybrid-boot write the bytes [446,512) are one
\* partition entry (0x80, CHS start 00 01 00, type 0xCD, CHS end FE FF FF,
\* LBA 0 and the sector count, both 4 bytes little-endian), 48 zero bytes,
\* and the signature 0x55 0xAA at 510 and 511.
C15_PartitionEntryLayout ==
    Succeeded =>
        /\ Len(iso.data) >= 512
        /\ Bytes(446, 453) = <<128, 0, 1, 0, 205, 254, 255, 255>>
        /\ Bytes(454, 457) = <<0, 0, 0, 0>>
        /\ Bytes(458, 461) = SectorCountLE(SizeAfterBootCode)
        /\ \A i \in 462..509 : At(i) = 0
        /\ Bytes(510, 511) = <<85, 170>>

C15_Witness ==
    /\ Succeeded
    /\ isoSize0 = Int64(734003200)
    /\ Bytes(446, 461) = <<128, 0, 1, 0, 205, 254, 255, 255, 0, 0, 0, 0, 0, 224, 21, 0>>
    /\ Bytes(510, 511) = <<85, 170>>

\* C16 (as stated): after a successful write on a target of size S, byte 446
\* is 0x80, byte 453 is the partition type, bytes 458..461 are the starting
\* LBA 0, bytes 462..465 are min(ceil(S/512), 2^32-1), bytes 466..509 are zero.
C16_FieldsAtStatedOffsets ==
    Succeeded =>
        /\ Len(iso.data) >= 512
        /\ At(446) = 128
        /\ At(453) = 205
        /\ Bytes(458, 461) = <<0, 0, 0, 0>>
        /\ Bytes(462, 465) = SectorCountLE(isoSize0)
        /\ \A i \in 466..509 : At(i) = 0

\* C16 (amended): after a successful write, byte 446 is 0x80, byte 450 is
\* the partition type 0xCD, bytes 454..457 are the starting LBA 0, bytes
\* 458..461 are min(ceil(S'/512), 2^32-1) for S' the size of the target once
\* the boot code is written (S itself unless the target was shorter than the
\* boot code), and bytes 462..509 are zero.
C16_FieldsAtEntryOffsets ==
    Succeeded =>
        /\ Len(iso.data) >= 512
        /\ At(446) = 128
        /\ At(450) = 205
        /\ Bytes(454, 457) = <<0, 0, 0, 0>>
        /\ Bytes(458, 461) = SectorCountLE(SizeAfterBootCode)
        /\ (isoSize0.hi > 0 \/ isoSize0.lo >= 432) =>
              Bytes(458, 461) = SectorCountLE(isoSize0)
        /\ Bytes(462, 509) = [k \in 1..48 |-> 0]

C16_Witness ==
    /\ Succeeded
    /\ isoSize0 = [hi |-> 2048, lo |-> 2560]
    /\ At(450) = 205
    /\ Bytes(458, 461) = <<255, 255, 255, 255>>

\* the partition table is in the file
TableWritten == entry = "addMBRBootCode" /\ (pc = "writeBootSig" \/ Succeeded)

\* C17 (as stated): for every blob length L and target size S measured before
\* the call, the sector count written is min(ceil(S/512), 2^32-1).
C17_SectorCountOfOriginalSize ==
    TableWritten =>
        /\ Len(iso.data) >= 462
        /\ Bytes(458, 461) = SectorCountLE(isoSize0)

\* C17 (amended): the sector count written is min(ceil(S'/512), 2^32-1) for
\* S' = max(S, min(L, 432)), the size measured after the boot code is
\* written; it is min(ceil(S/512), 2^32-1) for every S >= 1, and for S = 0
\* it is 1 when L >= 1 and 0 when L = 0.
C17_SectorCountOfMeasuredSize ==
    TableWritten =>
        /\ Len(iso.data) >= 462
        /\ Bytes(458, 461) = SectorCountLE(SizeAfterBootCode)
        /\ (isoSize0.hi > 0 \/ isoSize0.lo >= 1) => Bytes(458, 461) = SectorCountLE(isoSize0)
        /\ isoSize0 = [hi |-> 0, lo |-> 0] =>
              Bytes(458, 461) = <<IF blobLen >= 1 THEN 1 ELSE 0, 0, 0, 0>>

C17_Witness ==
    /\ Succeeded
    /\ isoSize0 = [hi |-> 0, lo |-> 0]
    /\ blobLen = 431
    /\ Bytes(458, 461) = <<1, 0, 0, 0>>

\* min(L, 432): the bytes of boot code that go into the file
BootCodeLen == IF blobLen < 432 THEN blobLen ELSE 432

\* offset i lies in neither range the write is to touch
Outside(i) == i >= BootCodeLen /\ (i < 446 \/ i >= 512)

\* C18: after a successful write with a blob of length L, bytes [0, min(L,432))
\* are the blob's first bytes, every byte the file had outside that range and
\* [446,512) is unchanged, the file is no shorter than it was, and a file of
\* 512 bytes or more has kept its length.
C18_OnlyBootRangesChange ==
    Succeeded =>
        /\ Len(iso.data) >= 512
        /\ \A i \in 0..(BootCodeLen - 1) : At(i) = BlobByte(isobootPath, i)
        /\ \A i \in 0..(Kept(isoSize0) - 1) : Outside(i) => At(i) = 101 + (i % 100)
        /\ ~Greater(isoSize0, iso.size)
        /\ (isoSize0.hi > 0 \/ isoSize0.lo >= 512) => iso.size = isoSize0

C18_Witness ==
    /\ Succeeded
    /\ blobLen = 431
    /\ isoSize0 = Int64(1024)
    /\ iso.size = Int64(1024)
    /\ At(430) = BlobByte(isobootPath, 430)
    /\ Bytes(431, 445) = [k \in 1..15 |-> 101 + ((430 + k) % 100)]
    /\ At(512) = 113

\* C19: when no candidate boot blob exists, the write fails at once with an
\* error that lists the three paths checked; the target is not opened and
\* holds what it held.
C19_NoBlobLeavesTargetAlone ==
    (entry = "addMBRBootCode" /\ bootFiles = {} /\ pc # "addMBRBootCode") =>
        /\ pc = "done"
        /\ result = <<"isoboot file not found", "/usr/freebsd/boot/isoboot",
                      "/work/iso/boot/isoboot", "/usr/freebsd/boot/cdboot">>
        /\ ~opened
        /\ iso.size = isoSize0
        /\ iso.data = [k \in 1..Kept(isoSize0) |-> 101 + ((k - 1) % 100)]

C19_Witness ==
    /\ entry = "addMBRBootCode" /\ pc = "done"
    /\ bootFiles = {}
    /\ blobLen = 432
    /\ isoSize0 = Int64(1024)
    /\ Len(result) = 4 /\ result[1] = "isoboot file not found"
    /\ ~opened

\* the first candidate that exists, in the order FREEBSD_ROOT isoboot,
\* ISO-root isoboot, FREEBSD_ROOT cdboot
FirstBlob ==
    IF "/usr/freebsd/boot/isoboot" \in bootFiles THEN "/usr/freebsd/boot/isoboot"
    ELSE IF "/work/iso/boot/isoboot" \in bootFiles THEN "/work/iso/boot/isoboot"
    ELSE IF "/usr/freebsd/boot/cdboot" \in bootFiles THEN "/usr/freebsd/boot/cdboot"
    ELSE ""

\* C20: the blob chosen, read and written is the first that exists in the
\* order <FREEBSD_ROOT>/boot/isoboot, <isoRoot>/boot/isoboot,
\* <FREEBSD_ROOT>/boot/cdboot; cdboot is used only when neither isoboot exists.
C20_FirstExistingBlobUsed ==
    (entry = "addMBRBootCode" /\ pc # "addMBRBootCode") =>
        /\ isobootPath = FirstBlob
        /\ isobootPath = "/usr/freebsd/boot/cdboot" =>
              bootFiles \cap {"/usr/freebsd/boot/isoboot", "/work/iso/boot/isoboot"} = {}
        /\ pc \notin {"readIsoboot", "done"} =>
              isoboot = [k \in 1..blobLen |-> BlobByte(FirstBlob, k - 1)]
        /\ (pc = "done" /\ result = Nil) =>
              \A i \in 0..(BootCodeLen - 1) : At(i) = BlobByte(FirstBlob, i)

C20_Witness ==
    /\ Succeeded
    /\ bootFiles = {"/work/iso/boot/isoboot", "/usr/freebsd/boot/cdboot"}
    /\ isobootPath = "/work/iso/boot/isoboot"
    /\ blobLen = 432
    /\ Bytes(0, 2) = <<31, 32, 33>>

\* the offsets of the writes made so far, in order
WriteOffsets == [k \in 1..Len(writes) |-> writes[k].off]

\* C21: the writes are made in the order offset 0, 446, 510; a write that
\* fails is the last one made and the function returns the error of that
\* write; what the writes before it put into the file is still there.
C21_WritesInOrderNoRollback ==
    entry = "addMBRBootCode" =>
        /\ IsPrefix(WriteOffsets, <<0, 446, 510>>)
        /\ \A k \in 1..Len(writes) :
              IF writes[k].ok
              THEN k < 3 => (pc # "done" \/ Len(writes) > k \/ result # Nil)
              ELSE /\ k = Len(writes)
                   /\ pc = "done"
                   /\ Len(result) >= 1
                   /\ k <= 3
                   /\ result[1] = <<"failed to write boot code",
                                    "failed to write partition table",
                                    "failed to write boot signature">>[k]
        /\ Len(writes) >= 2 =>
              \A i \in 0..(BootCodeLen - 1) : At(i) = BlobByte(isobootPath, i)
        /\ Len(writes) >= 3 =>
              /\ Len(iso.data) >= 510
              /\ Bytes(446, 457) = <<128, 0, 1, 0, 205, 254, 255, 255, 0, 0, 0, 0>>
              /\ Bytes(458, 461) = SectorCountLE(SizeAfterBootCode)
              /\ \A i \in 462..509 : At(i) = 0

C21_Witness ==
    /\ entry = "addMBRBootCode" /\ pc = "done"
    /\ writes = <<[off |-> 0, ok |-> TRUE], [off |-> 446, ok |-> FALSE]>>
    /\ result = <<"failed to write partition table", "EIO">>
    /\ blobLen = 432 /\ isoSize0 = Int64(1024)
    /\ Bytes(0, 2) = <<BlobByte(isobootPath, 0), BlobByte(isobootPath, 1), BlobByte(isobootPath, 2)>>
    /\ Bytes(510, 511) = <<111, 112>>

-----------------------------------------------------------------------------
(* Finalization and the progress log *)

\* the positions in cmds at which the program `name` was run
RunsOf(name) == {k \in 1..Len(cmds) : cmds[k].name = name}

\* C22: zpool export runs only after zpool set bootfs has succeeded; when
\* either of the two fails Install returns the finalization error, without an
\* export when it was the set that failed; and in every run where Install
\* returns nil the pool has been exported.
C22_BootfsThenExport ==
    entry = "Install" =>
        /\ \A k \in RunsOf("zpool export") :
              \E j \in 1..(k - 1) : cmds[j].name = "zpool set bootfs" /\ cmds[j].ok
        /\ \A k \in RunsOf("zpool set bootfs") \cup RunsOf("zpool export") :
              ~cmds[k].ok =>
                 /\ k = Len(cmds)
                 /\ pc = "done"
                 /\ Len(result) >= 2
                 /\ result[1] = "installation finalization failed"
                 /\ result[2] = IF cmds[k].name = "zpool export"
                                THEN "zpool export failed" ELSE "zpool set bootfs failed"
        /\ (\E k \in RunsOf("zpool set bootfs") : ~cmds[k].ok) => RunsOf("zpool export") = {}
        /\ (pc = "done" /\ result = Nil) =>
              /\ Len(cmds) >= 2
              /\ cmds[Len(cmds)] = [name |-> "zpool export", ok |-> TRUE]
              /\ cmds[Len(cmds) - 1] = [name |-> "zpool set bootfs", ok |-> TRUE]

C22_Witness ==
    /\ entry = "Install" /\ pc = "done"
    /\ Len(cmds) = 11
    /\ cmds[11] = [name |-> "zpool set bootfs", ok |-> FALSE]
    /\ RunsOf("zpool export") = {}
    /\ Len(result) >= 2
    /\ result[1] = "installation finalization failed"
    /\ result[2] = "zpool set bootfs failed"

\* the messages Install hands to the log sink, one at the start of each stage
StageMessages ==
    << "Validating installation configuration...",
       "Checking system requirements...",
       "Partitioning disk...",
       "Creating EFI system partition...",
       "Creating ZFS pool...",
       "Extracting root filesystem (this may take several minutes)...",
       "Installing EFI partition...",
       "Installing bootloader...",
       "Finalizing installation..." >>

\* the stages whose function has returned nil
Completed == {rets[k].stage : k \in {j \in 1..Len(rets) : rets[j].err = Nil}}

\* the stage a message of the log announces
StageOfMessage(msg) ==
    LET names == << "validateConfig", "checkRequirements", "partitionDisk",
                    "createEFIFilesystem", "createZFSPool", "extractZFSStream",
                    "copyEFIPartition", "installBootloader", "finalizeInstallation" >>
    IN  IF \E k \in 1..9 : StageMessages[k] = msg
        THEN names[CHOOSE k \in 1..9 : StageMessages[k] = msg]
        ELSE "none"

InstallFailed == entry = "Install" /\ pc = "done" /\ result # Nil

\* C23 (as stated): when Install returns a failure, every entry of the log
\* sink is that of a stage that completed successfully.
C23_LogHoldsOnlyCompletedStages ==
    InstallFailed =>
        \A k \in 1..Len(logs) : StageOfMessage(logs[k]) \in Completed

\* C23 (amended): when Install returns a failure, the log sink holds the
\* message of every stage that was started, in order: those of the stages
\* that completed and, last, that of the stage that failed; it holds no
\* message of a stage that did not run and no completion message.
C23_LogHoldsStartedStages ==
    InstallFailed =>
        /\ Len(rets) >= 1 /\ Len(rets) <= 9
        /\ Len(logs) = Len(rets)
        /\ logs = SubSeq(StageMessages, 1, Len(rets))
        /\ \A k \in 1..Len(logs) :
              /\ StageOfMessage(logs[k]) = rets[k].stage
              /\ (rets[k].err = Nil) <=> (k < Len(logs))

C23_Witness ==
    /\ InstallFailed
    /\ Len(result) >= 1 /\ result[1] = "ZFS pool creation failed"
    /\ Len(logs) = 5
    /\ logs[4] = "Creating EFI system partition..."
    /\ logs[5] = "Creating ZFS pool..."
    /\ Completed = {"validateConfig", "checkRequirements", "partitionDisk", "createEFIFilesystem"}

-----------------------------------------------------------------------------
(* The archive fetcher *)

FetchSucceeded == entry = "FetchArchives" /\ pc = "done" /\ result = Nil

\* C24: FetchArchives returns the archive paths with a nil error only if the
\* SHA-256 of each archive equals the entry the downloaded MANIFEST has for
\* it: no archive whose checksum differs from its entry is returned.
C24_MismatchedArchiveNeverReturned ==
    FetchSucceeded =>
        /\ "base.txz" \in DOMAIN checksums => SHA256(disk.base) = checksums["base.txz"]
        /\ "kernel.txz" \in DOMAIN checksums => SHA256(disk.kernel) = checksums["kernel.txz"]

\* the texts of the progress messages the installation emitted, in their order
Emitted ==
    LET RECURSIVE Texts(_)
        Texts(k) == IF k = 0 THEN <<>>
                    ELSE IF batch[k].type = "installLogMsg"
                    THEN Append(Texts(k - 1), batch[k].text)
                    ELSE Texts(k - 1)
    IN  Texts(Len(batch))

\* how often a text stands in a log
Count(log, text) == Cardinality({k \in 1..Len(log) : log[k] = text})

\* C25: in the Installing state no message produces a quit, and the state
\* changes only on the install-complete message, to Complete, and on the
\* install-error message, to Error; a key message changes nothing
C25_InstallingIgnoresKeys ==
    [][model.state = "Installing" =>
          /\ ~quit'
          /\ lastMsg' = "KeyMsg" => model' = model
          /\ \/ model'.state = "Installing"
             \/ lastMsg' = "installCompleteMsg" /\ model'.state = "Complete"
             \/ lastMsg' = "installErrorMsg" /\ model'.state = "Error"]_vars

\* a key was pressed while messages of the running installation were arriving,
\* and the program is still installing
C25_Witness ==
    /\ model.state = "Installing"
    /\ lastMsg = "KeyMsg"
    /\ ~quit
    /\ pending # {}
    /\ Cardinality(pending) < Len(batch)

\* C26: the installation is started only by y or Y in the Confirm state, which
\* is entered only from the disk list with the disk under the cursor selected,
\* the disk list only from the image list with the image under the cursor
\* selected; at most one installation is started in a session and at most one
\* is running
C26_OneInstallPerSession ==
    [][/\ installs' <= 1
       /\ inFlight' <= 1
       /\ installs' # installs =>
             /\ installs = 0
             /\ model.state = "Confirm"
             /\ model'.state = "Installing"
             /\ lastMsg' = "KeyMsg"
       /\ \A key \in Keys :
             handleKey(model, key, 1, 1).cmd = "install" =>
                model.state = "Confirm" /\ key \in {"y", "Y"}
       /\ (model'.state = "Confirm" /\ model.state # "Confirm") =>
             /\ model.state = "DiskSelect"
             /\ model.disks >= 1
             /\ model'.selectedDisk = model.cursor
             /\ model.cursor < model.disks
       /\ (model'.state = "DiskSelect" /\ model.state \notin {"DiskSelect", "Confirm"}) =>
             /\ model.state = "ImageSelect"
             /\ model.images >= 1
             /\ model'.selectedImg = model.cursor
             /\ model.cursor < model.images]_vars

\* the one installation of the session is over and a key was pressed after it
C26_Witness ==
    /\ installs = 1
    /\ inFlight = 0
    /\ model.state = "Complete"
    /\ lastMsg = "KeyMsg"
    /\ ~quit

\* C27: the installation log holds the progress messages emitted so far in
\* their order, each once; when the complete or the error message is handled
\* the log holds them all; the log of a completed installation ends in the
\* only "Installation complete!"
C27_LogInEmissionOrder ==
    /\ Len(model.installLog) <= Len(Emitted)
    /\ model.installLog = SubSeq(Emitted, 1, Len(model.installLog))
    /\ model.state \in {"Complete", "Error"} /\ batch # <<>> => model.installLog = Emitted
    /\ model.state = "Complete" =>
          /\ Count(model.installLog, "Installation complete!") = 1
          /\ model.installLog[Len(model.installLog)] = "Installation complete!"

\* a tool has one of its known paths on the host
AtKnownPath(tool) ==
    \E path \in toolFiles :
       \/ tool = "makefs" /\ path \in {"/usr/sbin/makefs", "/sbin/makefs"}
       \/ tool # "makefs" /\ path = "/usr/bin/" \o tool

\* the order of preference of the ISO tools
Preference == <<"makefs", "xorriso", "genisoimage", "mkisofs">>

\* C28: the tool detectISOTool selects is makefs whenever makefs is at one of
\* its known paths, and no tool that stands earlier in the order of preference
\* is at a known path, or found in PATH, when a later one is selected
C28_PreferredToolSelected ==
    isoTool.tool # "" =>
       /\ AtKnownPath("makefs") => isoTool.tool = "makefs"
       /\ \A j, k \in 1..Len(Preference) :
             (j < k /\ isoTool.tool = Preference[k]) =>
                ~AtKnownPath(Preference[j]) /\ Preference[j] \notin pathTools

\* C29: when Build has returned success the ISO file is in the ISO directory
C29_SuccessMeansISOFile ==
    (entry = "Build" /\ pc = "done" /\ result = <<>>) => "iso" \in outputs

\* the hybrid-boot write has been begun
MBRAttempted ==
    \/ pc \in {"addMBRBootCode", "readIsoboot", "openISO", "writeBootCode", "statISO",
               "writePartitionTable", "writeBootSig", "addMBRBootCodeReturned"}
    \/ \E k \in 1..Len(isoLog) :
          isoLog[k] \in {"Failed to add MBR boot code", "Created hybrid ISO"}
    \/ isobootPath # ""
    \/ opened
    \/ writes # <<>>

\* C30: in a build the hybrid-boot write is begun only after makefs has ended
\* well and only with boot/cdboot in the ISO root, and with makefs as the tool
\* the build returns success exactly when makefs has ended well
C30_MBRFailureNeverFailsBuild ==
    entry = "Build" =>
       /\ MBRAttempted => toolExit = "ok" /\ isoTool.tool = "makefs" /\ cdboot
       /\ (pc = "done" /\ isoTool.tool = "makefs") => (result = <<>> <=> toolExit = "ok")

\* a build that succeeded with makefs although the hybrid-boot write failed
C30_Witness ==
    /\ entry = "Build"
    /\ pc = "done"
    /\ result = <<>>
    /\ isoTool.tool = "makefs"
    /\ toolExit = "ok"
    /\ \E k \in 1..Len(isoLog) : isoLog[k] = "Failed to add MBR boot code"
    /\ writes # <<>>
    /\ ~writes[Len(writes)].ok

====
